---- MODULE Spec2Model ----
(***************************************************************************)
(* Mock assembly, scoring and analysis engine of the gate-platform         *)
(* practice-exam application, modelled as a state machine over the Prisma  *)
(* tables its route handlers read and write.                               *)
(*                                                                         *)
(* Tables are sequences of rows; a row's id is its position.  Numbers are  *)
(* exact decimals stored as integers in units of 1/Scale.  A JSON value    *)
(* is a record [t, n, s]: kind, numeric value, characters of a string.     *)
(*                                                                         *)
(* The mock engine reads the fixed question bank `question`; the admin    *)
(* route writes its questions to `catalog`, which starts empty.  A row of  *)
(* `bookmark` stays in the sequence when it is deleted, flagged not live,  *)
(* so that ids are never used twice.                                       *)
(*                                                                         *)
(* History fields, which are no columns of the schema: `call` on a         *)
(* MockSubmission or QuestionAttempt row is the number of the submit       *)
(* invocation that wrote it (0 for a practice attempt), `mockId` on a      *)
(* QuestionAttempt row the mock that invocation scored; a reply carries    *)
(* the caller and the inputs of its request.                               *)
(***************************************************************************)
EXTENDS Integers, Sequences, FiniteSets, TLC

VARIABLES mock, mockSubmission, questionAttempt, inflight, reply, calls,
          bookmark, catalog

vars == <<mock, mockSubmission, questionAttempt, inflight, reply, calls,
          bookmark, catalog>>

\* the tables of the mock engine
tables == <<mock, mockSubmission, questionAttempt>>

\* the Bookmark table and the question tables the admin route writes
content == <<bookmark, catalog>>

(* ------------------------------ bounds -------------------------------- *)

MaxMocks == 1

MaxCalls == 1

MaxResponses == 2

MaxPractice == 1

\* mocks and submit invocations where a mock is taken again
MaxRetakeMocks == 2

MaxRetakes == 2

\* questions asked for where a mock is analysed
SheetQuestions == 5

\* Bookmark rows ever created
MaxBookmarks == 3

\* questions the admin route ever creates
MaxCatalog == 2

(* --------------------------- program constants ------------------------ *)

Scale == 10000

TOLERANCE == 1

MaxNumQuestions == 100

PoolCeiling == 500

PoolFactor == 5

WeakMinAttempted == 3

(* ------------------------------ JSON values --------------------------- *)

Undefined == "undefined"

Null == "null"

JUndefined == [t |-> "undefined", n |-> 0, s |-> <<>>]

JNull == [t |-> "null", n |-> 0, s |-> <<>>]

NaN == [t |-> "nan", n |-> 0, s |-> <<>>]

JNum(v) == [t |-> "num", n |-> v, s |-> <<>>]

JStr(chars) == [t |-> "str", n |-> 0, s |-> chars]

Digits == {"0", "1", "2", "3", "4", "5", "6", "7", "8", "9"}

DigitVal(c) ==
  CASE c = "0" -> 0 [] c = "1" -> 1 [] c = "2" -> 2 [] c = "3" -> 3
    [] c = "4" -> 4 [] c = "5" -> 5 [] c = "6" -> 6 [] c = "7" -> 7
    [] c = "8" -> 8 [] c = "9" -> 9

Min(a, b) == IF a < b THEN a ELSE b

Abs(x) == IF x < 0 THEN 0 - x ELSE x

RECURSIVE Pow10(_)
Pow10(k) == IF k <= 0 THEN 1 ELSE 10 * Pow10(k - 1)

\* first position at or after i that does not hold a digit
RECURSIVE DigitsEnd(_, _)
DigitsEnd(s, i) ==
  IF i <= Len(s) /\ s[i] \in Digits THEN DigitsEnd(s, i + 1) ELSE i

\* value of the digit string s[i..j-1]
RECURSIVE DigitsValue(_, _, _)
DigitsValue(s, i, j) ==
  IF i >= j THEN 0 ELSE DigitsValue(s, i, j - 1) * 10 + DigitVal(s[j - 1])

\* number of fraction digits one unit of 1/Scale resolves
FracDigits == CHOOSE k \in 0..9 : Pow10(k) = Scale

\* the longest decimal prefix [sign] digits [. digits] of s, scaled; NaN when
\* s has no such prefix.  Exponents and leading blanks are not modelled.
DecimalPrefix(s) ==
  LET signed == Len(s) >= 1 /\ s[1] \in {"-", "+"}
      st == IF signed THEN 2 ELSE 1
      ie == DigitsEnd(s, st)
      hasDot == ie <= Len(s) /\ s[ie] = "."
      fs == ie + 1
      fe == IF hasDot THEN DigitsEnd(s, fs) ELSE ie
      nFrac == IF hasDot THEN fe - fs ELSE 0
      used == Min(nFrac, FracDigits)
      mag == DigitsValue(s, st, ie) * Scale
             + DigitsValue(s, fs, fs + used) * Pow10(FracDigits - used)
      last == IF hasDot /\ (nFrac > 0 \/ ie > st) THEN fe ELSE ie
  IN  [ok |-> (ie - st) + nFrac > 0,
       n |-> IF signed /\ s[1] = "-" THEN 0 - mag ELSE mag,
       end |-> last]

parseFloat(s) ==
  LET p == DecimalPrefix(s) IN IF p.ok THEN JNum(p.n) ELSE NaN

\* Number(v): undefined is NaN, null is 0, a string must be numeric as a whole
Number(v) ==
  CASE v.t = "undefined" -> NaN
    [] v.t = "null" -> JNum(0)
    [] v.t = "num" -> v
    [] v.t = "nan" -> NaN
    [] v.t = "str" ->
         IF Len(v.s) = 0 THEN JNum(0)
         ELSE LET p == DecimalPrefix(v.s)
              IN  IF p.ok /\ p.end = Len(v.s) + 1 THEN JNum(p.n) ELSE NaN

\* pairs of values one tolerance apart whose difference, computed in
\* doubles, comes out above the double nearest to 0.0001: 3.14 - 3.1399 is
\* 0.00010000000000021103, while 3.14 - 3.1401 is -0.00009999999999976694.
\* For every other pair of values the requests carry here the doubles order
\* as the decimals do.
RoundedAbove == {<<31400, 31399>>}

\* Math.abs(a - b) <= TOLERANCE; any comparison with NaN is false
WithinTolerance(a, b) ==
  /\ a.t = "num"
  /\ b.t = "num"
  /\ Abs(a.n - b.n) <= TOLERANCE
  /\ <<a.n, b.n>> \notin RoundedAbove

\* v ?? null
OrNull(v) == IF v.t = "undefined" THEN JNull ELSE v

\* a Float? column accepts a number or null
ValidFloatColumn(v) == v.t \in {"num", "null"}

(* ------------------------------ sequences ----------------------------- *)

Range(s) == {s[i] : i \in 1..Len(s)}

RECURSIVE SumSeq(_)
SumSeq(s) == IF Len(s) = 0 THEN 0 ELSE s[1] + SumSeq(Tail(s))

Prefix(s, n) == SubSeq(s, 1, n)

\* the swap written as one assignment: arr[j] is copied, arr[i] is lost
Swap_Clobber(arr, i, j) == [arr EXCEPT ![i] = arr[j]]

Swap(arr, i, j) == [arr EXCEPT ![i] = arr[j], ![j] = arr[i]]

(* --------------------------- reference data --------------------------- *)

Users == {"u1", "u2"}

NoSolution == [present |-> FALSE, answerText |-> <<>>]

SolutionRow(chars) == [present |-> TRUE, answerText |-> chars]

OptionRow(oid, lab, ok) == [id |-> oid, label |-> lab, isCorrect |-> ok]

\* Exam table: code -> id (Exam_code_key makes the code unique)
ExamRows == {[id |-> "e1", code |-> "GATE_CSE"],
             [id |-> "e2", code |-> "GATE_EC"]}

\* Tag table: id -> slug
TagRows == {[id |-> "g1", slug |-> "high-weightage"],
            [id |-> "g2", slug |-> "pyq"]}

\* Subject table: id -> name
SubjectRows == {[id |-> "s1", name |-> "Algorithms"],
                [id |-> "s2", name |-> "Calculus"]}

\* Topic table, in the order its rows are read
TopicRows == <<[id |-> "t1", name |-> "Sorting"],
               [id |-> "t2", name |-> "Limits"]>>

QuestionIds == {"q1", "q2", "q3", "q4", "q5", "q6", "q7", "q8"}

\* Question rows with their options, solution, topics and tags, as the schema
\* admits them: q2 has no option flagged correct, q4 is a NAT question
\* without Solution, q5 a NAT question whose answerText is not a number,
\* q7 the newest question, of the second exam as is q8, an MSQ question
\* with two options flagged correct.
QuestionBank ==
  [q \in QuestionIds |->
     CASE q = "q1" ->
            [id |-> "q1", examId |-> "e1", subjectId |-> "s1", year |-> 2024,
             marks |-> 1, type |-> "MCQ", difficulty |-> "EASY",
             isFormulaBased |-> FALSE, topics |-> {"t1"}, tags |-> {"g1"},
             options |-> <<OptionRow("o1", "A", TRUE),
                           OptionRow("o2", "B", FALSE)>>,
             solution |-> NoSolution]
       [] q = "q2" ->
            [id |-> "q2", examId |-> "e1", subjectId |-> "s1", year |-> 2023,
             marks |-> 2, type |-> "MSQ", difficulty |-> "MEDIUM",
             isFormulaBased |-> FALSE, topics |-> {"t1", "t2"}, tags |-> {},
             options |-> <<OptionRow("o3", "A", FALSE),
                           OptionRow("o4", "B", FALSE)>>,
             solution |-> NoSolution]
       [] q = "q3" ->
            [id |-> "q3", examId |-> "e1", subjectId |-> "s2", year |-> 2022,
             marks |-> 2, type |-> "NAT", difficulty |-> "HARD",
             isFormulaBased |-> TRUE, topics |-> {"t2"}, tags |-> {"g2"},
             options |-> <<>>,
             solution |-> SolutionRow(<<"3", ".", "1", "4">>)]
       [] q = "q4" ->
            [id |-> "q4", examId |-> "e1", subjectId |-> Null, year |-> 2021,
             marks |-> 1, type |-> "NAT", difficulty |-> "EASY",
             isFormulaBased |-> TRUE, topics |-> {}, tags |-> {},
             options |-> <<>>,
             solution |-> NoSolution]
       [] q = "q5" ->
            [id |-> "q5", examId |-> "e1", subjectId |-> "s2", year |-> 2020,
             marks |-> 1, type |-> "NAT", difficulty |-> "MEDIUM",
             isFormulaBased |-> FALSE, topics |-> {"t2"}, tags |-> {},
             options |-> <<>>,
             solution |-> SolutionRow(<<"a", "b", "c">>)]
       [] q = "q6" ->
            [id |-> "q6", examId |-> "e1", subjectId |-> "s1", year |-> 2019,
             marks |-> 1, type |-> "MCQ", difficulty |-> "HARD",
             isFormulaBased |-> FALSE, topics |-> {"t1"}, tags |-> {"g1", "g2"},
             options |-> <<OptionRow("o5", "A", TRUE),
                           OptionRow("o6", "B", FALSE)>>,
             solution |-> NoSolution]
       [] q = "q7" ->
            [id |-> "q7", examId |-> "e2", subjectId |-> "s1", year |-> 2025,
             marks |-> 1, type |-> "MCQ", difficulty |-> "EASY",
             isFormulaBased |-> FALSE, topics |-> {"t1"}, tags |-> {"g1"},
             options |-> <<OptionRow("o7", "A", TRUE),
                           OptionRow("o8", "B", FALSE)>>,
             solution |-> NoSolution]
       [] q = "q8" ->
            [id |-> "q8", examId |-> "e2", subjectId |-> "s2", year |-> 2018,
             marks |-> 2, type |-> "MSQ", difficulty |-> "MEDIUM",
             isFormulaBased |-> FALSE, topics |-> {"t2"}, tags |-> {},
             options |-> <<OptionRow("o9", "A", TRUE),
                           OptionRow("o10", "B", TRUE),
                           OptionRow("o11", "C", FALSE)>>,
             solution |-> NoSolution]]

\* the Question table; no handler modelled here writes it
question == QuestionBank

(* ------------------------------ Assemble Mock -------------------------- *)

NoFilter ==
  [subjectIds |-> {}, topicIds |-> {}, difficulties |-> {}, types |-> {},
   marks |-> {}, formulaBased |-> Undefined, tagIds |-> {}, tagSlugs |-> {}]

AllowedDifficulties == {"EASY", "MEDIUM", "HARD"}

AllowedTypes == {"MCQ", "MSQ", "NAT"}

\* v.toString().toUpperCase() on the spellings the requests use
toUpperCase(v) ==
  CASE v = "easy" -> "EASY"
    [] v = "hard" -> "HARD"
    [] v = "nat" -> "NAT"
    [] OTHER -> v

\* the values of raw, upper-cased, that the allowed list names; the others
\* are dropped without a word
parseEnumArray(raw, allowed) == {toUpperCase(v) : v \in raw} \cap allowed

\* the filter arrays after "Normalize arrays": the id arrays and well-typed
\* marks and formulaBased pass as they are
Normalized(f) ==
  [f EXCEPT !.difficulties = parseEnumArray(@, AllowedDifficulties),
            !.types = parseEnumArray(@, AllowedTypes)]

\* the Prisma where-clause built from the request: every supplied dimension
\* constrains, tags match by id OR by slug
Matches(q, examId, f) ==
  /\ q.examId = examId
  /\ (f.subjectIds # {} => q.subjectId \in f.subjectIds)
  /\ (f.difficulties # {} => q.difficulty \in f.difficulties)
  /\ (f.types # {} => q.type \in f.types)
  /\ (f.marks # {} => q.marks \in f.marks)
  /\ (f.formulaBased # Undefined => q.isFormulaBased = (f.formulaBased = "true"))
  /\ (f.topicIds # {} => q.topics \cap f.topicIds # {})
  /\ ((f.tagIds # {} \/ f.tagSlugs # {}) =>
        \E g \in q.tags :
          \/ (f.tagIds # {} /\ g \in f.tagIds)
          \/ (f.tagSlugs # {} /\
                \E row \in TagRows : row.id = g /\ row.slug \in f.tagSlugs))

\* question ids of a set ordered by year, newest first (years are distinct)
RECURSIVE ByYearDesc(_, _)
ByYearDesc(ids, bank) ==
  IF ids = {} THEN <<>>
  ELSE LET newest == CHOOSE a \in ids : \A b \in ids : bank[a].year >= bank[b].year
       IN  <<newest>> \o ByYearDesc(ids \ {newest}, bank)

\* prisma.question.findMany({ where, take, orderBy: { year: 'desc' } })
Candidates(bank, examId, f, numQuestions) ==
  LET all == ByYearDesc({q \in DOMAIN bank : Matches(bank[q], examId, f)}, bank)
  IN  Prefix(all, Min(Len(all), Min(PoolCeiling, numQuestions * PoolFactor)))

\* every array the Fisher-Yates loop can leave behind, i running from the
\* last index down to the second, j drawn from the indices up to i
RECURSIVE ShuffleFrom(_, _)
ShuffleFrom(arr, i) ==
  IF i <= 1 THEN {arr}
  ELSE UNION {ShuffleFrom(Swap(arr, i, j), i - 1) : j \in 1..i}

shuffleInPlace(arr) == ShuffleFrom(arr, Len(arr))

\* a selection filled up to numQuestions by starting over in the pool
Selected_Padded(shuffled, numQuestions) ==
  [k \in 1..numQuestions |-> shuffled[((k - 1) % Len(shuffled)) + 1]]

\* candidates.slice(0, Math.min(numQuestions, candidates.length))
Selected(shuffled, numQuestions) ==
  Prefix(shuffled, Min(numQuestions, Len(shuffled)))

MockQuestionRows(selected) ==
  [index \in 1..Len(selected) |->
     [questionId |-> selected[index], order |-> index]]

(* ------------------------------- requests ------------------------------ *)

\* request slots: a handler invocation occupies one from its first read to
\* its reply; two requests can be in progress at a time
Requests == {"r1", "r2"}

\* the slot of a client that sends one request after the other
Serial == {"r1"}

Idle == [pc |-> "idle"]

NoReply == [op |-> "none", status |-> 0]

ErrorReply(o, st, kind) == [op |-> o, status |-> st, error |-> kind]

Init ==
  /\ mock = <<>>
  /\ mockSubmission = <<>>
  /\ questionAttempt = <<>>
  /\ inflight = [r \in Requests |-> Idle]
  /\ reply = [r \in Requests |-> NoReply]
  /\ calls = 0
  /\ bookmark = <<>>
  /\ catalog = <<>>

\* the early returns of POST /api/mocks, in the order the handler tests them;
\* "none" when the request gets as far as the shuffle
AssembleError(bank, name, examCode, numQuestions, timeLimitMinutes, f) ==
  IF name = "" THEN "ValidationError"
  ELSE IF numQuestions <= 0 THEN "ValidationError"
  ELSE IF numQuestions > MaxNumQuestions THEN "ValidationError"
  ELSE IF timeLimitMinutes.t # "null" /\ timeLimitMinutes.n <= 0
       THEN "ValidationError"
  ELSE IF ~ \E e \in ExamRows : e.code = examCode THEN "NotFound"
  ELSE LET e == CHOOSE e \in ExamRows : e.code = examCode
       IN  IF Len(Candidates(bank, e.id, f, numQuestions)) = 0
           THEN "NoCandidates" ELSE "none"

ErrorStatus(kind) ==
  CASE kind = "ValidationError" -> 400
    [] kind = "NoCandidates" -> 400
    [] kind = "NotFound" -> 404
    [] kind = "Forbidden" -> 403
    [] kind = "ConfigurationError" -> 500
    [] kind = "Internal" -> 500

\* POST /api/mocks
AssembleMock(r, userId, name, examCode, numQuestions, timeLimitMinutes, f) ==
  /\ inflight[r] = Idle
  /\ UNCHANGED content
  /\ LET err == AssembleError(question, name, examCode, numQuestions,
                              timeLimitMinutes, Normalized(f))
     IN  IF err # "none"
         THEN /\ reply' = [reply EXCEPT ![r] =
                             ErrorReply("assemble", ErrorStatus(err), err)]
              /\ UNCHANGED <<tables, inflight, calls>>
         ELSE \/ /\ LET e == CHOOSE e \in ExamRows : e.code = examCode
                        candidates == Candidates(question, e.id, Normalized(f),
                                                 numQuestions)
                    IN  \E shuffled \in shuffleInPlace(candidates) :
                          LET selected == Selected(shuffled, numQuestions)
                              row == [id |-> Len(mock) + 1,
                                      userId |-> userId,
                                      name |-> name,
                                      timeLimit |-> timeLimitMinutes,
                                      questions |-> MockQuestionRows(selected)]
                          IN  /\ mock' = Append(mock, row)
                              /\ reply' = [reply EXCEPT ![r] =
                                             [op |-> "assemble",
                                              status |-> 200,
                                              caller |-> userId,
                                              numQuestions |-> numQuestions,
                                              pool |-> Range(candidates),
                                              id |-> row.id]]
                 /\ UNCHANGED <<mockSubmission, questionAttempt,
                                inflight, calls>>
              \/ \* the datastore rejects the nested create: nothing is kept
                 /\ reply' = [reply EXCEPT ![r] =
                                ErrorReply("assemble", 500, "Internal")]
                 /\ UNCHANGED <<tables, inflight, calls>>

(* ---------------------------- Score Submission ------------------------- *)

\* the ids of all options of q
CorrectOptionIds_All(q) == [k \in 1..Len(q.options) |-> q.options[k].id]

\* ids of the options of q flagged isCorrect, in option order
CorrectOptionIds(q) ==
  LET correctOptions == SelectSeq(q.options, LAMBDA o : o.isCorrect)
  IN  [k \in 1..Len(correctOptions) |-> correctOptions[k].id]

\* r.selectedOptionId || ''
OrEmpty(v) == IF v = Undefined THEN "" ELSE v

\* v ?? null for an option id
IdOrNull(v) == IF v = Undefined THEN Null ELSE v

\* the scoring pass without the `continue` for a missing Solution: the
\* answer text of no Solution parses to no number, the response is graded
GradeMockResponse_NoSkip(q, r) ==
  IF q.type = "NAT"
  THEN LET correctValue == parseFloat(q.solution.answerText)
           givenValue == Number(r.numericAnswer)
       IN  [skip |-> FALSE,
            isCorrect |-> WithinTolerance(correctValue, givenValue),
            correctOptionIds |-> <<>>,
            correctNumericAnswer |-> correctValue]
  ELSE LET correctOptionIds == CorrectOptionIds(q)
       IN  [skip |-> FALSE,
            isCorrect |-> OrEmpty(r.selectedOptionId) \in Range(correctOptionIds),
            correctOptionIds |-> correctOptionIds,
            correctNumericAnswer |-> JNull]

\* one pass of the scoring loop over response r of a question q of the mock:
\* skip is the `continue` taken for a NAT question without Solution
GradeMockResponse(q, r) ==
  IF q.type = "NAT"
  THEN IF ~ q.solution.present
       THEN [skip |-> TRUE, isCorrect |-> FALSE,
             correctOptionIds |-> <<>>, correctNumericAnswer |-> JNull]
       ELSE LET correctValue == parseFloat(q.solution.answerText)
                givenValue == Number(r.numericAnswer)
            IN  [skip |-> FALSE,
                 isCorrect |-> WithinTolerance(correctValue, givenValue),
                 correctOptionIds |-> <<>>,
                 correctNumericAnswer |-> correctValue]
  ELSE LET correctOptionIds == CorrectOptionIds(q)
       IN  [skip |-> FALSE,
            isCorrect |-> OrEmpty(r.selectedOptionId) \in Range(correctOptionIds),
            correctOptionIds |-> correctOptionIds,
            correctNumericAnswer |-> JNull]

\* a lookup over every question instead of the questions of the mock
QuestionMap_WholeBank(m, bank) == bank

\* new Map(mock.questions.map((mq) => [mq.questionId, mq.question]))
QuestionMap(m, bank) ==
  [qid \in {m.questions[k].questionId : k \in 1..Len(m.questions)} |-> bank[qid]]

\* marks added whether or not the response is correct
ScoreGain_Always(isCorrect, marks) == marks

\* marks added to totalScore by a graded response
ScoreGain(isCorrect, marks) == IF isCorrect THEN marks ELSE 0

\* the early returns without the comparison of the mock's owner and the caller
SubmitError_NoOwnerCheck(mocks, userId, mockId, responses) ==
  IF Len(responses) = 0 THEN "ValidationError"
  ELSE IF mockId \notin 1..Len(mocks) THEN "NotFound"
  ELSE "none"

\* the early returns of POST /api/mocks/:id/submit before the scoring loop,
\* in the order the handler tests them
SubmitError(mocks, userId, mockId, responses) ==
  IF Len(responses) = 0 THEN "ValidationError"
  ELSE IF mockId \notin 1..Len(mocks) THEN "NotFound"
  ELSE IF mocks[mockId].userId # userId THEN "Forbidden"
  ELSE "none"

\* POST /api/mocks/:id/submit up to the scoring loop: body and ownership
\* checks, and the load of the mock with its questions
SubmitBegin(r, userId, mockId, responses) ==
  /\ inflight[r] = Idle
  /\ UNCHANGED content
  /\ LET err == SubmitError(mock, userId, mockId, responses)
     IN  IF err # "none"
         THEN /\ reply' = [reply EXCEPT ![r] =
                             [op |-> "submit", status |-> ErrorStatus(err),
                              error |-> err, caller |-> userId,
                              mockId |-> mockId]]
              /\ UNCHANGED <<tables, inflight, calls>>
         ELSE /\ calls' = calls + 1
              /\ inflight' = [inflight EXCEPT ![r] =
                                [pc |-> "loop",
                                 call |-> calls + 1,
                                 userId |-> userId,
                                 mockId |-> mockId,
                                 responses |-> responses,
                                 i |-> 1,
                                 totalScore |-> 0,
                                 resultResponses |-> <<>>]]
              /\ reply' = [reply EXCEPT ![r] = NoReply]
              /\ UNCHANGED <<tables>>

\* one iteration of `for (const r of responses)`, ending at the await of
\* prisma.questionAttempt.create or at a `continue`.  The questionMap built
\* when the mock was loaded is recomputed here: neither the rows of a mock
\* nor the questions change in between.
SubmitStep(r) ==
  LET s == inflight[r] IN
  /\ s.pc = "loop"
  /\ UNCHANGED content
  /\ s.i <= Len(s.responses)
  /\ LET resp == s.responses[s.i]
         questionMap == QuestionMap(mock[s.mockId], question)
         known == resp.questionId \in DOMAIN questionMap
     IN  IF ~ known
         THEN /\ inflight' = [inflight EXCEPT ![r].i = s.i + 1]
              /\ UNCHANGED <<tables, reply, calls>>
         ELSE LET q == questionMap[resp.questionId]
                  g == GradeMockResponse(q, resp)
              IN  IF g.skip
                  THEN /\ inflight' = [inflight EXCEPT ![r].i = s.i + 1]
                       /\ UNCHANGED <<tables, reply, calls>>
                  ELSE IF ~ ValidFloatColumn(OrNull(resp.numericAnswer))
                  THEN \* the client rejects the row: caught, 500
                       /\ inflight' = [inflight EXCEPT ![r] = Idle]
                       /\ reply' = [reply EXCEPT ![r] =
                                      [op |-> "submit", status |-> 500,
                                       error |-> "Internal",
                                       caller |-> s.userId,
                                       mockId |-> s.mockId,
                                       call |-> s.call]]
                       /\ UNCHANGED <<tables, calls>>
                  ELSE /\ questionAttempt' =
                            Append(questionAttempt,
                                   [userId |-> s.userId,
                                    questionId |-> resp.questionId,
                                    selectedOptionId |->
                                      IdOrNull(resp.selectedOptionId),
                                    numericAnswer |->
                                      OrNull(resp.numericAnswer),
                                    isCorrect |-> g.isCorrect,
                                    timeTakenSeconds |-> resp.timeTakenSeconds,
                                    mode |-> "mock",
                                    call |-> s.call,
                                    mockId |-> s.mockId])
                       /\ inflight' =
                            [inflight EXCEPT
                               ![r].i = s.i + 1,
                               ![r].totalScore =
                                 s.totalScore + ScoreGain(g.isCorrect, q.marks),
                               ![r].resultResponses =
                                 Append(s.resultResponses,
                                        [questionId |-> resp.questionId,
                                         selectedOptionId |-> resp.selectedOptionId,
                                         numericAnswer |-> resp.numericAnswer,
                                         isCorrect |-> g.isCorrect,
                                         correctOptionIds |-> g.correctOptionIds,
                                         correctNumericAnswer |->
                                           g.correctNumericAnswer,
                                         timeTakenSeconds |->
                                           resp.timeTakenSeconds])]
                       /\ UNCHANGED <<mock, mockSubmission, reply,
                                      calls>>

\* rows of the nested `responses: { create: ... }`
ResponseRows(resultResponses) ==
  [k \in 1..Len(resultResponses) |->
     [questionId |-> resultResponses[k].questionId,
      selectedOptionId |-> IdOrNull(resultResponses[k].selectedOptionId),
      numericAnswer |-> OrNull(resultResponses[k].numericAnswer),
      isCorrect |-> resultResponses[k].isCorrect,
      timeTakenSeconds |-> resultResponses[k].timeTakenSeconds]]

\* createdAt DateTime @default(now()): a row created after another carries
\* a later instant
CreatedAt(rows) == Len(rows) + 1

\* a create that replaces the submission the user already has for the mock
StoreSubmission_Upsert(rows, submission) ==
  IF \E k \in 1..Len(rows) : /\ rows[k].mockId = submission.mockId
                             /\ rows[k].userId = submission.userId
  THEN LET k == CHOOSE k \in 1..Len(rows) :
                  /\ rows[k].mockId = submission.mockId
                  /\ rows[k].userId = submission.userId
       IN  [rows EXCEPT ![k] = [submission EXCEPT !.id = k]]
  ELSE Append(rows, submission)

\* prisma.mockSubmission.create: one more row, whatever rows there are
StoreSubmission(rows, submission) == Append(rows, submission)

\* prisma.mockSubmission.create with its nested responses, and the reply
SubmitFinish(r) ==
  LET s == inflight[r] IN
  /\ s.pc = "loop"
  /\ UNCHANGED content
  /\ s.i > Len(s.responses)
  /\ LET submission == [id |-> Len(mockSubmission) + 1,
                        mockId |-> s.mockId,
                        userId |-> s.userId,
                        totalScore |-> s.totalScore,
                        createdAt |-> CreatedAt(mockSubmission),
                        responses |-> ResponseRows(s.resultResponses),
                        call |-> s.call]
     IN  /\ mockSubmission' = StoreSubmission(mockSubmission, submission)
         /\ reply' = [reply EXCEPT ![r] =
                        [op |-> "submit", status |-> 200,
                         caller |-> s.userId,
                         mockId |-> s.mockId,
                         call |-> s.call,
                         request |-> s.responses,
                         submissionId |-> submission.id,
                         totalScore |-> submission.totalScore,
                         responses |-> s.resultResponses]]
  /\ inflight' = [inflight EXCEPT ![r] = Idle]
  /\ UNCHANGED <<mock, questionAttempt, calls>>

\* a datastore write of the handler fails: the catch block answers 500 and
\* nothing written before is undone
SubmitDbError(r) ==
  LET s == inflight[r] IN
  /\ s.pc = "loop"
  /\ UNCHANGED content
  /\ inflight' = [inflight EXCEPT ![r] = Idle]
  /\ reply' = [reply EXCEPT ![r] =
                 [op |-> "submit", status |-> 500, error |-> "Internal",
                  caller |-> s.userId, mockId |-> s.mockId, call |-> s.call]]
  /\ UNCHANGED <<tables, calls>>

(* ------------------------------ practice attempt ----------------------- *)

\* POST /api/questions/:id/attempt: the reply kind of each early return,
\* "none" when the attempt is graded
AttemptError(bank, questionId, selectedOptionId, numericAnswer) ==
  IF questionId \notin DOMAIN bank THEN "NotFound"
  ELSE LET q == bank[questionId] IN
       IF q.type = "NAT"
       THEN IF ~ q.solution.present THEN "ConfigurationError"
            ELSE IF numericAnswer.t \in {"undefined", "null"}
                 THEN "ValidationError"
            ELSE IF parseFloat(q.solution.answerText) = NaN
                    \/ Number(numericAnswer) = NaN
                 THEN "ValidationError"
            ELSE "none"
       ELSE IF selectedOptionId \in {Undefined, ""} THEN "ValidationError"
            ELSE IF Len(CorrectOptionIds(q)) = 0 THEN "ConfigurationError"
            ELSE "none"

\* isCorrect of a practice attempt that passed AttemptError
GradeAttempt(q, selectedOptionId, numericAnswer) ==
  IF q.type = "NAT"
  THEN WithinTolerance(parseFloat(q.solution.answerText), Number(numericAnswer))
  ELSE selectedOptionId \in Range(CorrectOptionIds(q))

\* the answer key in the reply of a practice attempt
AttemptKey(q) ==
  IF q.type = "NAT"
  THEN [correctOptionIds |-> <<>>,
        correctNumericAnswer |-> parseFloat(q.solution.answerText)]
  ELSE [correctOptionIds |-> CorrectOptionIds(q),
        correctNumericAnswer |-> JNull]

PracticeRows == SelectSeq(questionAttempt, LAMBDA a : a.mode = "practice")

AttemptQuestion(r, userId, questionId, selectedOptionId, numericAnswer) ==
  /\ inflight[r] = Idle
  /\ UNCHANGED content
  /\ LET err == AttemptError(question, questionId, selectedOptionId,
                             numericAnswer)
     IN  IF err # "none"
         THEN /\ reply' = [reply EXCEPT ![r] =
                             [op |-> "attempt", status |-> ErrorStatus(err),
                              error |-> err, questionId |-> questionId]]
              /\ UNCHANGED <<tables, inflight, calls>>
         ELSE IF ~ ValidFloatColumn(OrNull(numericAnswer))
         THEN /\ reply' = [reply EXCEPT ![r] =
                             [op |-> "attempt", status |-> 500,
                              error |-> "Internal",
                              questionId |-> questionId]]
              /\ UNCHANGED <<tables, inflight, calls>>
         ELSE LET isCorrect == GradeAttempt(question[questionId],
                                            selectedOptionId, numericAnswer)
              IN  /\ Len(PracticeRows) < MaxPractice
                  /\ questionAttempt' =
                       Append(questionAttempt,
                              [userId |-> userId,
                               questionId |-> questionId,
                               selectedOptionId |-> IdOrNull(selectedOptionId),
                               numericAnswer |-> OrNull(numericAnswer),
                               isCorrect |-> isCorrect,
                               timeTakenSeconds |-> 0,
                               mode |-> "practice",
                               call |-> 0,
                               mockId |-> 0])
                  /\ reply' = [reply EXCEPT ![r] =
                                 [op |-> "attempt", status |-> 200,
                                  questionId |-> questionId,
                                  attemptId |-> Len(questionAttempt) + 1,
                                  isCorrect |-> isCorrect,
                                  correctOptionIds |->
                                    AttemptKey(question[questionId])
                                      .correctOptionIds,
                                  correctNumericAnswer |->
                                    AttemptKey(question[questionId])
                                      .correctNumericAnswer]]
                  /\ UNCHANGED <<mock, mockSubmission, inflight,
                                 calls>>

(* ------------------------------- bookmark ------------------------------ *)

\* id of the Bookmark row of (userId, questionId), 0 when there is none
FindBookmark(rows, userId, questionId) ==
  LET found == {k \in 1..Len(rows) : /\ rows[k].live
                                      /\ rows[k].userId = userId
                                      /\ rows[k].questionId = questionId}
  IN  IF found = {} THEN 0 ELSE CHOOSE k \in found : TRUE

BookmarkRow(userId, questionId) ==
  [userId |-> userId, questionId |-> questionId, live |-> TRUE]

\* an upsert that creates a row whether or not there is one
UpsertBookmark_CreateAlways(rows, userId, questionId) ==
  Append(rows, BookmarkRow(userId, questionId))

\* prisma.bookmark.upsert with update: {}, one statement of the database
UpsertBookmark(rows, userId, questionId) ==
  IF FindBookmark(rows, userId, questionId) # 0 THEN rows
  ELSE Append(rows, BookmarkRow(userId, questionId))

\* prisma.bookmark.deleteMany({ where: { userId, questionId } })
DeleteManyBookmark(rows, userId, questionId) ==
  [k \in 1..Len(rows) |->
     IF rows[k].userId = userId /\ rows[k].questionId = questionId
     THEN [rows[k] EXCEPT !.live = FALSE] ELSE rows[k]]

\* body.action ?? 'toggle'
ActionOf(action) == IF action = Undefined THEN "toggle" ELSE action

\* the replies of POST /api/questions/:id/bookmark that are no success
BookmarkError(bank, questionId, action) ==
  IF questionId \notin DOMAIN bank THEN "NotFound"
  ELSE IF action \notin {"add", "remove", "toggle"} THEN "ValidationError"
  ELSE "none"

\* caller, questionId and action are history fields
BookmarkReply(userId, questionId, action, isBookmarked) ==
  [op |-> "bookmark", status |-> 200, caller |-> userId,
   questionId |-> questionId, action |-> action,
   isBookmarked |-> isBookmarked]

BookmarkFailure(userId, questionId, action, kind) ==
  [op |-> "bookmark", status |-> ErrorStatus(kind), error |-> kind,
   caller |-> userId, questionId |-> questionId, action |-> action]

\* POST /api/questions/:id/bookmark up to its first access to the Bookmark
\* table: add and remove are done with it, toggle has read the row
BookmarkBegin(r, userId, questionId, action) ==
  /\ inflight[r] = Idle
  /\ UNCHANGED <<tables, calls, catalog>>
  /\ LET a == ActionOf(action)
         err == BookmarkError(question, questionId, a)
     IN  IF err # "none"
         THEN /\ reply' = [reply EXCEPT ![r] =
                             BookmarkFailure(userId, questionId, a, err)]
              /\ UNCHANGED <<bookmark, inflight>>
         ELSE IF a = "add"
         THEN /\ bookmark' = UpsertBookmark(bookmark, userId, questionId)
              /\ reply' = [reply EXCEPT ![r] =
                             BookmarkReply(userId, questionId, a, TRUE)]
              /\ UNCHANGED inflight
         ELSE IF a = "remove"
         THEN /\ bookmark' = DeleteManyBookmark(bookmark, userId, questionId)
              /\ reply' = [reply EXCEPT ![r] =
                             BookmarkReply(userId, questionId, a, FALSE)]
              /\ UNCHANGED inflight
         ELSE /\ inflight' = [inflight EXCEPT ![r] =
                                [pc |-> "toggle",
                                 userId |-> userId,
                                 questionId |-> questionId,
                                 existing |-> FindBookmark(bookmark, userId,
                                                           questionId)]]
              /\ reply' = [reply EXCEPT ![r] = NoReply]
              /\ UNCHANGED bookmark

\* the write of a toggle: delete by the id read before, or create.  The
\* delete of a row that is gone and the create of a row the unique index
\* Bookmark_userId_questionId_key forbids throw, and the catch block
\* answers 500.
BookmarkToggle(r) ==
  LET s == inflight[r] IN
  /\ s.pc = "toggle"
  /\ UNCHANGED <<tables, calls, catalog>>
  /\ inflight' = [inflight EXCEPT ![r] = Idle]
  /\ IF s.existing # 0
     THEN IF bookmark[s.existing].live
          THEN /\ bookmark' = [bookmark EXCEPT ![s.existing].live = FALSE]
               /\ reply' = [reply EXCEPT ![r] =
                              BookmarkReply(s.userId, s.questionId,
                                            "toggle", FALSE)]
          ELSE /\ reply' = [reply EXCEPT ![r] =
                              BookmarkFailure(s.userId, s.questionId,
                                              "toggle", "Internal")]
               /\ UNCHANGED bookmark
     ELSE IF FindBookmark(bookmark, s.userId, s.questionId) # 0
          THEN /\ reply' = [reply EXCEPT ![r] =
                              BookmarkFailure(s.userId, s.questionId,
                                              "toggle", "Internal")]
               /\ UNCHANGED bookmark
          ELSE /\ bookmark' = Append(bookmark,
                                     BookmarkRow(s.userId, s.questionId))
               /\ reply' = [reply EXCEPT ![r] =
                              BookmarkReply(s.userId, s.questionId,
                                            "toggle", TRUE)]

(* ---------------------------- admin questions -------------------------- *)

\* Subject.examId: both subjects are subjects of the first exam
SubjectExamId(subjectId) == "e1"

\* v.toString().trim() on the spellings the requests use
trim(v) ==
  CASE v = " " -> ""
    [] OTHER -> v

\* v.toString().toLowerCase() on the spellings the requests use
toLowerCase(v) ==
  CASE v = "PYQ" -> "pyq"
    [] OTHER -> v

\* !v for a string that may be absent
Falsy(v) == v \in {Undefined, ""}

normalizeEnum(raw, allowed) ==
  IF Falsy(raw) THEN Null
  ELSE IF toUpperCase(raw) \in allowed THEN toUpperCase(raw) ELSE Null

\* typeof v === 'number' ? v : Number(v ?? NaN)
BodyNumber(v) ==
  IF v.t = "num" THEN v
  ELSE IF v.t \in {"undefined", "null"} THEN NaN ELSE Number(v)

\* body.solution absent, and a solution object with its answerText (no
\* characters when the object has none)
NoBodySolution == [given |-> FALSE, answerText |-> <<>>]

BodySolution(chars) == [given |-> TRUE, answerText |-> chars]

BodyOption(lab, txt, ok) == [label |-> lab, text |-> txt, isCorrect |-> ok]

\* the options trimmed, without those that lack a label or a text
normalizedOptions(options) ==
  LET cleaned == [i \in 1..Len(options) |->
                    [label |-> trim(options[i].label),
                     text |-> trim(options[i].text),
                     isCorrect |-> options[i].isCorrect]]
      valid(o) == ~Falsy(o.label) /\ ~Falsy(o.text)
  IN  SelectSeq(cleaned, valid)

\* tagIds, then the id of every slug that names a Tag row and is not yet
\* in the list, in the order of the slugs
RECURSIVE ResolveSlugs(_, _)
ResolveSlugs(ids, slugs) ==
  IF slugs = <<>> THEN ids
  ELSE LET key == toLowerCase(trim(Head(slugs)))
           hit == {t.id : t \in {x \in TagRows : x.slug = key}}
           fresh == {g \in hit : \A i \in 1..Len(ids) : ids[i] # g}
       IN  IF fresh # {}
           THEN ResolveSlugs(Append(ids, CHOOSE g \in fresh : TRUE),
                             Tail(slugs))
           ELSE ResolveSlugs(ids, Tail(slugs))

resolvedTagIds(body) == ResolveSlugs(body.tagIds, body.tagSlugs)

\* the answer before the database is read: 401 without a session, 400 for
\* the first field that fails its validation
AdminInvalid(userId, body) ==
  LET type == normalizeEnum(body.type, AllowedTypes)
      marks == BodyNumber(body.marks)
      valid == normalizedOptions(body.options)
  IN  CASE userId = Undefined -> "Unauthorized"
        [] Falsy(trim(body.examCode)) -> "ExamCodeRequired"
        [] Falsy(trim(body.subjectId)) -> "SubjectIdRequired"
        [] Falsy(trim(body.question)) -> "QuestionRequired"
        [] BodyNumber(body.year).t # "num" -> "BadYear"
        [] marks.t # "num" \/ marks.n <= 0 -> "BadMarks"
        [] type = Null -> "BadType"
        [] normalizeEnum(body.difficulty, AllowedDifficulties) = Null ->
             "BadDifficulty"
        [] type # "NAT" /\ Len(body.options) = 0 -> "OptionsRequired"
        [] type # "NAT" /\ Len(valid) = 0 -> "NoValidOption"
        [] type # "NAT" /\ \A i \in 1..Len(valid) : ~valid[i].isCorrect ->
             "NoCorrectOption"
        [] type = "NAT" /\ (~body.solution.given
                            \/ body.solution.answerText = <<>>) ->
             "NatNeedsAnswer"
        [] OTHER -> "none"

\* the answer of the lookups of exam and subject
AdminLookup(body) ==
  LET exams == {e \in ExamRows : e.code = trim(body.examCode)}
      subjects == {s \in SubjectRows : s.id = trim(body.subjectId)}
  IN  IF exams = {} THEN "ExamNotFound"
      ELSE IF subjects = {}
              \/ SubjectExamId(trim(body.subjectId))
                   # (CHOOSE e \in exams : TRUE).id
      THEN "SubjectMismatch"
      ELSE "none"

AdminStatus(kind) ==
  CASE kind = "none" -> 200
    [] kind = "Unauthorized" -> 401
    [] kind \in {"ExamNotFound", "QuestionNotFound"} -> 404
    [] kind = "Internal" -> 500
    [] OTHER -> 400

HasDuplicates(s) == \E i, j \in 1..Len(s) : i < j /\ s[i] = s[j]

\* createMany violates the unique index on (questionId, id) or the foreign
\* key of the id
RelationThrows(ids, known) ==
  /\ Len(ids) > 0
  /\ \/ HasDuplicates(ids)
     \/ \E i \in 1..Len(ids) : ids[i] \notin known

\* what makes the transaction throw and roll back: an update of a question
\* that does not exist, a year or marks that the INTEGER columns refuse,
\* a relation row that the database refuses
TransactionError(rows, body) ==
  IF body.id # 0 /\ body.id \notin 1..Len(rows) THEN "QuestionNotFound"
  ELSE IF \/ BodyNumber(body.year).n % Scale # 0
          \/ BodyNumber(body.marks).n % Scale # 0
          \/ RelationThrows(body.topicIds,
                            {TopicRows[i].id : i \in 1..Len(TopicRows)})
          \/ RelationThrows(resolvedTagIds(body), {t.id : t \in TagRows})
  THEN "Internal"
  ELSE "none"

\* a question that has just been created, before its relations are written
NewQuestion == [topics |-> <<>>, tags |-> <<>>]

\* the question and its relations when the transaction commits: topics and
\* tags are replaced when the request names some, options always, and the
\* Solution row is written when the request has an answerText and deleted
\* when it has none
SavedQuestion(old, body) ==
  LET type == normalizeEnum(body.type, AllowedTypes)
      resolved == resolvedTagIds(body)
  IN  [examId |-> (CHOOSE e \in ExamRows : e.code = trim(body.examCode)).id,
       subjectId |-> trim(body.subjectId),
       year |-> BodyNumber(body.year).n \div Scale,
       marks |-> BodyNumber(body.marks).n \div Scale,
       type |-> type,
       difficulty |-> normalizeEnum(body.difficulty, AllowedDifficulties),
       hasSolution |-> body.solution.given,
       topics |-> IF Len(body.topicIds) > 0 THEN body.topicIds
                  ELSE old.topics,
       tags |-> IF Len(resolved) > 0 THEN resolved ELSE old.tags,
       options |-> IF type # "NAT" THEN normalizedOptions(body.options)
                   ELSE <<>>,
       solution |-> IF body.solution.given
                       /\ body.solution.answerText # <<>>
                    THEN SolutionRow(body.solution.answerText)
                    ELSE NoSolution]

AdminFailure(userId, body, kind) ==
  [op |-> "adminQuestion", status |-> AdminStatus(kind), error |-> kind,
   userId |-> userId, body |-> body, id |-> 0]

AdminReply(userId, body, id, row) ==
  [op |-> "adminQuestion", status |-> 200, error |-> "none",
   userId |-> userId, body |-> body, id |-> id,
   hasSolution |-> row.hasSolution, topics |-> row.topics,
   tags |-> row.tags, options |-> row.options, solution |-> row.solution]

\* POST /api/admin/questions: create without id, update with one.  The
\* writes are one transaction, which SQLite runs apart from every other
\* writer; a throw inside leaves the tables as they were.
AdminSaveQuestion(r, userId, body) ==
  /\ inflight[r] = Idle
  /\ UNCHANGED <<tables, calls, bookmark, inflight>>
  /\ LET invalid == AdminInvalid(userId, body)
         lookup == IF invalid # "none" THEN invalid ELSE AdminLookup(body)
         err == IF lookup # "none" THEN lookup
                ELSE TransactionError(catalog, body)
     IN  IF err # "none"
         THEN /\ reply' = [reply EXCEPT ![r] =
                             AdminFailure(userId, body, err)]
              /\ UNCHANGED catalog
         ELSE IF body.id = 0
         THEN LET row == SavedQuestion(NewQuestion, body)
              IN  /\ catalog' = Append(catalog, row)
                  /\ reply' = [reply EXCEPT ![r] =
                                 AdminReply(userId, body,
                                            Len(catalog) + 1, row)]
         ELSE LET row == SavedQuestion(catalog[body.id], body)
              IN  /\ catalog' = [catalog EXCEPT ![body.id] = row]
                  /\ reply' = [reply EXCEPT ![r] =
                                 AdminReply(userId, body, body.id, row)]

(* ------------------------------- reads --------------------------------- *)

\* ids of the submissions of a mock by a user, oldest first
SubmissionsOf(mockId, userId) ==
  SelectSeq([k \in 1..Len(mockSubmission) |-> k],
            LAMBDA k : mockSubmission[k].mockId = mockId
                       /\ mockSubmission[k].userId = userId)

\* the first row of an ordering by createdAt ascending
LatestSubmission_Oldest(mockId, userId) ==
  LET ids == Range(SubmissionsOf(mockId, userId))
  IN  IF ids = {} THEN 0
      ELSE CHOOSE k \in ids :
             \A j \in ids : mockSubmission[k].createdAt
                                <= mockSubmission[j].createdAt

\* findFirst({ where: { mockId, userId }, orderBy: { createdAt: 'desc' } });
\* 0 when there is none
LatestSubmission(mockId, userId) ==
  LET ids == Range(SubmissionsOf(mockId, userId))
  IN  IF ids = {} THEN 0
      ELSE CHOOSE k \in ids :
             \A j \in ids : mockSubmission[k].createdAt
                                >= mockSubmission[j].createdAt

\* the submission GET /api/mocks/:id/analysis reports on; submissionId 0 is
\* an absent query parameter; 0 when none is found
TargetSubmission(mockId, userId, submissionId) ==
  IF submissionId # 0
  THEN IF submissionId \in Range(SubmissionsOf(mockId, userId))
       THEN submissionId ELSE 0
  ELSE LatestSubmission(mockId, userId)

(* Analyze Submission: the report *)

Difficulties == {"EASY", "MEDIUM", "HARD"}

RECURSIVE Gcd(_, _)
Gcd(a, b) == IF b = 0 THEN a ELSE Gcd(b, a % b)

\* the number n / d, d > 0, as a fraction in lowest terms: equal numbers are
\* equal records
Quotient(n, d) == [num |-> n \div Gcd(n, d), den |-> d \div Gcd(n, d)]

Zero == Quotient(0, 1)

\* a < b for two such numbers
Less(a, b) == a.num * b.den < b.num * a.den

\* the division without the test of attempted: 0 / 0 is no number
Accuracy_Unguarded(correct, attempted) ==
  IF attempted = 0 THEN [num |-> 0, den |-> 0]
  ELSE Quotient(correct, attempted)

\* attempted > 0 ? correct / attempted : 0
Accuracy(correct, attempted) ==
  IF attempted > 0 THEN Quotient(correct, attempted) ELSE Zero

\* the entry of questionMetaMap for question q
QuestionMeta(q) ==
  LET topics == SelectSeq(TopicRows, LAMBDA row : row.id \in q.topics)
      known == \E s \in SubjectRows : s.id = q.subjectId
  IN  [marks |-> q.marks,
       difficulty |-> q.difficulty,
       subjectId |-> IF known THEN q.subjectId ELSE Null,
       subjectName |-> IF known
                       THEN (CHOOSE s \in SubjectRows : s.id = q.subjectId).name
                       ELSE Null,
       topicIds |-> [k \in 1..Len(topics) |-> topics[k].id],
       topicNames |-> [k \in 1..Len(topics) |-> topics[k].name]]

\* maxScore: the marks of every question of the mock
RECURSIVE MaxScore(_, _)
MaxScore(questions, k) ==
  IF k = 0 THEN 0
  ELSE MaxScore(questions, k - 1) + question[questions[k].questionId].marks

\* new Map(submission.responses.map((r) => [r.questionId, r])): of two
\* responses to one question the later entry replaces the earlier
ResponseByQuestionId(responses) ==
  [qid \in {responses[k].questionId : k \in 1..Len(responses)} |->
     responses[CHOOSE k \in 1..Len(responses) :
                 /\ responses[k].questionId = qid
                 /\ \A j \in (k + 1)..Len(responses) :
                      responses[j].questionId # qid]]

\* the marks added to the score of a bucket for every response
Count_ScoreAttempted(stat, attempted, isCorrect, marks) ==
  [stat EXCEPT !.totalQuestions = @ + 1,
               !.attempted = IF attempted THEN @ + 1 ELSE @,
               !.correct = IF isCorrect THEN @ + 1 ELSE @,
               !.score = IF attempted THEN @ + marks ELSE @]

\* stat.totalQuestions += 1; if (attempted) stat.attempted += 1;
\* if (isCorrect) { stat.correct += 1; stat.score += meta.marks }
Count(stat, attempted, isCorrect, marks) ==
  [stat EXCEPT !.totalQuestions = @ + 1,
               !.attempted = IF attempted THEN @ + 1 ELSE @,
               !.correct = IF isCorrect THEN @ + 1 ELSE @,
               !.score = IF isCorrect THEN @ + marks ELSE @]

\* subjectStats after one question: a Map in insertion order, as a sequence
CountSubject(subjectStats, meta, attempted, isCorrect) ==
  IF meta.subjectId \in {Null, ""} \/ meta.subjectName \in {Null, ""}
  THEN subjectStats
  ELSE LET has == \E k \in 1..Len(subjectStats) :
                    subjectStats[k].subjectId = meta.subjectId
           stats == IF has THEN subjectStats
                    ELSE Append(subjectStats,
                                [subjectId |-> meta.subjectId,
                                 subjectName |-> meta.subjectName,
                                 totalQuestions |-> 0, attempted |-> 0,
                                 correct |-> 0, score |-> 0])
           at == CHOOSE k \in 1..Len(stats) :
                   stats[k].subjectId = meta.subjectId
       IN  [stats EXCEPT ![at] = Count(@, attempted, isCorrect, meta.marks)]

\* topicStats after the first idx topics of one question
RECURSIVE CountTopics(_, _, _, _, _)
CountTopics(topicStats, meta, attempted, isCorrect, idx) ==
  IF idx = 0 THEN topicStats
  ELSE LET before == CountTopics(topicStats, meta, attempted, isCorrect,
                                 idx - 1)
           topicId == meta.topicIds[idx]
           has == \E k \in 1..Len(before) : before[k].topicId = topicId
           stats == IF has THEN before
                    ELSE Append(before,
                                [topicId |-> topicId,
                                 topicName |-> meta.topicNames[idx],
                                 totalQuestions |-> 0, attempted |-> 0,
                                 correct |-> 0, score |-> 0])
           at == CHOOSE k \in 1..Len(stats) : stats[k].topicId = topicId
       IN  [stats EXCEPT ![at] = Count(@, attempted, isCorrect, meta.marks)]

\* difficultyStats with the totals of the first loop over the questions
DifficultyTotals(questions) ==
  [d \in Difficulties |->
     [totalQuestions |->
        Cardinality({k \in 1..Len(questions) :
                       question[questions[k].questionId].difficulty = d}),
      attempted |-> 0,
      correct |-> 0]]

\* the counters after the first k questions of the mock have been matched
\* with the responses
RECURSIVE Aggregate(_, _, _)
Aggregate(questions, responseByQuestionId, k) ==
  IF k = 0
  THEN [attempted |-> 0, correct |-> 0, totalTimeTaken |-> 0,
        subjectStats |-> <<>>, topicStats |-> <<>>,
        difficultyStats |-> DifficultyTotals(questions)]
  ELSE LET a == Aggregate(questions, responseByQuestionId, k - 1)
           q == question[questions[k].questionId]
           meta == QuestionMeta(q)
           attempted == q.id \in DOMAIN responseByQuestionId
           isCorrect == attempted /\ responseByQuestionId[q.id].isCorrect
           timeTaken == IF attempted
                        THEN responseByQuestionId[q.id].timeTakenSeconds
                        ELSE 0
           d == q.difficulty
       IN  [attempted |-> IF attempted THEN a.attempted + 1 ELSE a.attempted,
            correct |-> IF isCorrect THEN a.correct + 1 ELSE a.correct,
            totalTimeTaken |-> a.totalTimeTaken + timeTaken,
            subjectStats |->
              CountSubject(a.subjectStats, meta, attempted, isCorrect),
            topicStats |->
              CountTopics(a.topicStats, meta, attempted, isCorrect,
                          Len(meta.topicIds)),
            difficultyStats |->
              IF d \in Difficulties
              THEN [a.difficultyStats EXCEPT
                      ![d].attempted = IF attempted THEN @ + 1 ELSE @,
                      ![d].correct = IF isCorrect THEN @ + 1 ELSE @]
              ELSE a.difficultyStats]

\* the overall block with the questions that have a response as the total
Overall_AttemptedOnly(questions, a, submission) ==
  [totalQuestions |-> a.attempted,
   attempted |-> a.attempted,
   correct |-> a.correct,
   totalScore |-> submission.totalScore,
   maxScore |-> MaxScore(questions, Len(questions)),
   accuracy |-> Accuracy(a.correct, a.attempted),
   avgTimePerQuestion |-> Accuracy(a.totalTimeTaken, a.attempted),
   totalTimeTaken |-> a.totalTimeTaken]

\* the overall block of the payload, a the counters after the last question
Overall(questions, a, submission) ==
  [totalQuestions |-> Len(questions),
   attempted |-> a.attempted,
   correct |-> a.correct,
   totalScore |-> submission.totalScore,
   maxScore |-> MaxScore(questions, Len(questions)),
   accuracy |-> Accuracy(a.correct, a.attempted),
   avgTimePerQuestion |->
     IF a.attempted > 0 THEN Quotient(a.totalTimeTaken, a.attempted) ELSE Zero,
   totalTimeTaken |-> a.totalTimeTaken]

\* Array.from(subjectStats.values()) with the accuracy of each
BySubject(subjectStats) ==
  [k \in 1..Len(subjectStats) |->
     LET s == subjectStats[k]
     IN  [subjectId |-> s.subjectId, subjectName |-> s.subjectName,
          totalQuestions |-> s.totalQuestions, attempted |-> s.attempted,
          correct |-> s.correct, score |-> s.score,
          accuracy |-> Accuracy(s.correct, s.attempted)]]

\* Array.from(topicStats.values()) with the accuracy of each
ByTopic(topicStats) ==
  [k \in 1..Len(topicStats) |->
     LET s == topicStats[k]
     IN  [topicId |-> s.topicId, topicName |-> s.topicName,
          totalQuestions |-> s.totalQuestions, attempted |-> s.attempted,
          correct |-> s.correct, score |-> s.score,
          accuracy |-> Accuracy(s.correct, s.attempted)]]

ByDifficulty(difficultyStats) ==
  [d \in Difficulties |->
     LET s == difficultyStats[d]
     IN  [totalQuestions |-> s.totalQuestions, attempted |-> s.attempted,
          correct |-> s.correct,
          accuracy |-> Accuracy(s.correct, s.attempted)]]

\* the literal 0.6
WeakAccuracy == Quotient(6, 10)

\* the filter with a strict comparison of attempted
IsWeak_Over(s) ==
  s.attempted > WeakMinAttempted /\ Less(s.accuracy, WeakAccuracy)

\* t.attempted >= 3 && t.accuracy < 0.6
IsWeak(s) ==
  s.attempted >= WeakMinAttempted /\ Less(s.accuracy, WeakAccuracy)

\* Array.prototype.sort with (a, b) => a.accuracy - b.accuracy: ascending,
\* equal elements in their order of the input
RECURSIVE SortByAccuracy(_)
SortByAccuracy(s) ==
  IF Len(s) = 0 THEN <<>>
  ELSE LET sorted == SortByAccuracy(Prefix(s, Len(s) - 1))
           x == s[Len(s)]
           n == Cardinality({k \in 1..Len(sorted) :
                               ~ Less(x.accuracy, sorted[k].accuracy)})
       IN  Prefix(sorted, n) \o <<x>> \o SubSeq(sorted, n + 1, Len(sorted))

WeakTopics(byTopic) ==
  LET weak == SortByAccuracy(SelectSeq(byTopic, IsWeak))
  IN  [k \in 1..Len(weak) |->
         [topicId |-> weak[k].topicId, topicName |-> weak[k].topicName,
          attempted |-> weak[k].attempted, correct |-> weak[k].correct,
          accuracy |-> weak[k].accuracy]]

\* the responses loaded with every submission of the mock of submission sid
ResponsesOf_WholeMock(rows, sid) ==
  LET same == SelectSeq(rows, LAMBDA s : s.mockId = rows[sid].mockId)
      RECURSIVE Join(_)
      Join(k) == IF k = 0 THEN <<>> ELSE Join(k - 1) \o same[k].responses
  IN  Join(Len(same))

\* include: { responses: true }: the responses of the submission found
ResponsesOf(rows, sid) == rows[sid].responses

\* the summary of the submission with the id of the query string
SubmissionSummary_Echo(submission, submissionId) ==
  [id |-> submissionId, totalScore |-> submission.totalScore,
   createdAt |-> submission.createdAt]

\* the submission block of the payload
SubmissionSummary(submission, submissionId) ==
  [id |-> submission.id, totalScore |-> submission.totalScore,
   createdAt |-> submission.createdAt]

\* the payload of GET /api/mocks/:id/analysis for mock m and the submission
\* at position sid of the MockSubmission rows, asked for with query
\* parameter submissionId
Report(rows, m, sid, submissionId) ==
  LET submission == rows[sid]
      responseByQuestionId == ResponseByQuestionId(ResponsesOf(rows, sid))
      a == Aggregate(m.questions, responseByQuestionId, Len(m.questions))
      byTopic == ByTopic(a.topicStats)
  IN  [mock |-> [id |-> m.id, name |-> m.name, timeLimit |-> m.timeLimit],
       submission |-> SubmissionSummary(submission, submissionId),
       overall |-> Overall(m.questions, a, submission),
       bySubject |-> BySubject(a.subjectStats),
       byTopic |-> byTopic,
       byDifficulty |-> ByDifficulty(a.difficultyStats),
       weakTopics |-> WeakTopics(byTopic)]

AnalysisError(userId, mockId, submissionId) ==
  IF mockId \notin 1..Len(mock) THEN "NotFound"
  ELSE IF mock[mockId].userId # userId THEN "Forbidden"
  ELSE IF TargetSubmission(mockId, userId, submissionId) = 0 THEN "NotFound"
  ELSE "none"

\* GET /api/mocks/:id/analysis: access checks, choice of the submission and
\* the payload; submissionId and sid in the reply are history fields
GetAnalysis(r, userId, mockId, submissionId) ==
  /\ inflight[r] = Idle
  /\ UNCHANGED content
  /\ LET err == AnalysisError(userId, mockId, submissionId)
     IN  reply' = [reply EXCEPT ![r] =
           IF err # "none"
           THEN [op |-> "analysis", status |-> ErrorStatus(err),
                 error |-> err, caller |-> userId, mockId |-> mockId]
           ELSE LET sid == TargetSubmission(mockId, userId, submissionId)
                IN  [op |-> "analysis", status |-> 200,
                     caller |-> userId, mockId |-> mockId,
                     submissionId |-> submissionId, sid |-> sid,
                     data |-> Report(mockSubmission, mock[mockId], sid,
                                     submissionId)]]
  /\ UNCHANGED <<tables, inflight, calls>>

MockError(userId, mockId) ==
  IF mockId \notin 1..Len(mock) THEN "NotFound"
  ELSE IF mock[mockId].userId # userId THEN "Forbidden"
  ELSE "none"

\* GET /api/mocks/:id
GetMock(r, userId, mockId) ==
  /\ inflight[r] = Idle
  /\ UNCHANGED content
  /\ LET err == MockError(userId, mockId)
     IN  reply' = [reply EXCEPT ![r] =
           IF err # "none"
           THEN [op |-> "mock", status |-> ErrorStatus(err),
                 error |-> err, caller |-> userId, mockId |-> mockId]
           ELSE [op |-> "mock", status |-> 200,
                 caller |-> userId, mockId |-> mockId,
                 id |-> mockId, name |-> mock[mockId].name,
                 timeLimit |-> mock[mockId].timeLimit,
                 latestSubmission |-> LatestSubmission(mockId, userId),
                 questions |-> mock[mockId].questions]]
  /\ UNCHANGED <<tables, inflight, calls>>

(* ------------------------------- inputs -------------------------------- *)

\* a well-formed request body of POST /api/mocks
MockBody(numQuestions, f) ==
  [name |-> "Mock", examCode |-> "GATE_CSE", numQuestions |-> numQuestions,
   timeLimitMinutes |-> JNull, filter |-> f]

\* bodies that assemble a mock: a pool cut to the newest questions, pools
\* larger than, equal to and smaller than the requested number
GoodMockBodies ==
  {MockBody(1, NoFilter),
   MockBody(2, [NoFilter EXCEPT !.types = {"NAT"}]),
   MockBody(2, [NoFilter EXCEPT !.subjectIds = {"s1"}]),
   MockBody(2, [NoFilter EXCEPT !.difficulties = {"HARD"}]),
   MockBody(2, [NoFilter EXCEPT !.types = {"MSQ"}])}

\* bodies the handler turns down
BadMockBodies ==
  {[MockBody(1, NoFilter) EXCEPT !.name = ""],
   [MockBody(1, NoFilter) EXCEPT !.examCode = "GATE_XX"],
   [MockBody(1, NoFilter) EXCEPT !.timeLimitMinutes = JNum(0)],
   MockBody(0, NoFilter),
   MockBody(MaxNumQuestions + 1, NoFilter),
   MockBody(1, [NoFilter EXCEPT !.types = {"MSQ"}, !.difficulties = {"HARD"}])}

MockBodies == GoodMockBodies \cup BadMockBodies

Resp(q, opt, num) ==
  [questionId |-> q, selectedOptionId |-> opt, numericAnswer |-> num,
   timeTakenSeconds |-> 30]

NotANumber == JStr(<<"a", "b", "c">>)

\* submitted responses: right, wrong, missing and ill-typed answers to every
\* kind of question, and one to a question that does not exist
ResponseInputs ==
  {Resp("q1", "o1", JUndefined), Resp("q1", "o2", JUndefined),
   Resp("q1", Undefined, JUndefined), Resp("q1", "o1", JNum(0)),
   Resp("q2", "o3", JUndefined),
   Resp("q3", Undefined, JNum(31401)), Resp("q3", Undefined, JNum(31402)),
   Resp("q3", Undefined, JUndefined), Resp("q3", Undefined, NotANumber),
   Resp("q4", Undefined, JNum(31400)),
   Resp("q5", Undefined, JNum(31400)),
   Resp("q6", "o5", JUndefined),
   Resp("qx", "o1", JUndefined)}

\* responses to the questions of mock m, one to a question that does not
\* exist and one to a question of the bank (in the mock or not)
ResponsesFor(m) ==
  {x \in ResponseInputs :
     \/ x.questionId \in {"qx", "q6"}
     \/ \E k \in 1..Len(m.questions) : m.questions[k].questionId = x.questionId}

Lists(S) == UNION {[1..n -> S] : n \in 0..MaxResponses}

SubmitLists(mockId) ==
  IF mockId \in 1..Len(mock)
  THEN Lists(ResponsesFor(mock[mockId]))
  ELSE {<<>>, <<Resp("qx", "o1", JUndefined)>>}

MockIdInputs == 1..(MaxMocks + 1)

SubmissionIdInputs == 0..(MaxCalls + 1)

(* ---------------------------- specification ---------------------------- *)

\* the users who assemble mocks; every user submits and reads
Owners == {"u1"}

\* the model stops assembling at `most` mocks; a refused request is always
\* possible
RoomForMock(b, most) ==
  AssembleError(question, b.name, b.examCode, b.numQuestions,
                b.timeLimitMinutes, Normalized(b.filter)) = "none"
    => Len(mock) < most

\* the model stops scoring at `most` submit invocations; a refused request is
\* always possible
RoomForCall(userId, mockId, responses, most) ==
  SubmitError(mock, userId, mockId, responses) = "none" => calls < most

Assemble ==
  \E r \in Serial, userId \in Owners, b \in MockBodies :
    /\ RoomForMock(b, MaxMocks)
    /\ AssembleMock(r, userId, b.name, b.examCode, b.numQuestions,
                    b.timeLimitMinutes, b.filter)

Submit ==
  \E r \in Serial, userId \in Users, mockId \in MockIdInputs :
    \E responses \in SubmitLists(mockId) :
      /\ RoomForCall(userId, mockId, responses, MaxCalls)
      /\ SubmitBegin(r, userId, mockId, responses)

Step == \E r \in Serial : SubmitStep(r)

Finish == \E r \in Serial : SubmitFinish(r)

DbError == \E r \in Serial : SubmitDbError(r)

\* practice attempts: a right answer to each well-formed kind of question,
\* and the missing, ill-typed and misconfigured cases
AttemptInputs ==
  {Resp("q1", "o1", JUndefined), Resp("q1", Undefined, JUndefined),
   Resp("q2", "o3", JUndefined),
   Resp("q3", Undefined, JNum(31401)), Resp("q3", Undefined, JUndefined),
   Resp("q3", Undefined, NotANumber),
   Resp("q4", Undefined, JNum(31400)),
   Resp("q5", Undefined, JNum(31400)),
   Resp("qx", "o1", JUndefined)}

Attempt ==
  \E r \in Serial, userId \in Users, x \in AttemptInputs :
    AttemptQuestion(r, userId, x.questionId, x.selectedOptionId,
                    x.numericAnswer)

Analysis ==
  \E r \in Serial, userId \in Users, mockId \in MockIdInputs,
     submissionId \in SubmissionIdInputs :
    GetAnalysis(r, userId, mockId, submissionId)

ReadMock ==
  \E r \in Serial, userId \in Users, mockId \in MockIdInputs :
    GetMock(r, userId, mockId)

\* the mock engine: assembly, scoring and the owner's reads
Next ==
  \/ Assemble
  \/ Submit
  \/ Step
  \/ Finish
  \/ DbError
  \/ Analysis
  \/ ReadMock

Spec == Init /\ [][Next]_vars

\* assembly alone, by every user and with more bodies: an unfiltered pool
\* larger than the request, a time limit, tags by id and by slug, topics
\* with marks, the formula-based flag, the second exam, and requests with
\* more than one thing wrong, difficulties and types in lower case and
\* difficulties the schema does not know
WideMockBodies ==
  MockBodies \cup
  {MockBody(2, NoFilter),
   [MockBody(1, NoFilter) EXCEPT !.timeLimitMinutes = JNum(60)],
   MockBody(2, [NoFilter EXCEPT !.tagIds = {"g1"}, !.tagSlugs = {"pyq"}]),
   MockBody(2, [NoFilter EXCEPT !.topicIds = {"t2"}, !.marks = {2}]),
   MockBody(1, [NoFilter EXCEPT !.formulaBased = "true"]),
   MockBody(1, [NoFilter EXCEPT !.formulaBased = "false",
                                !.tagSlugs = {"pyq"}]),
   [MockBody(1, NoFilter) EXCEPT !.examCode = "GATE_EC"],
   [MockBody(1, [NoFilter EXCEPT !.types = {"NAT"}])
      EXCEPT !.examCode = "GATE_EC"],
   MockBody(1, [NoFilter EXCEPT !.difficulties = {"hard"}, !.types = {"nat"}]),
   MockBody(1, [NoFilter EXCEPT !.difficulties = {"HARD", "EXTREME"}]),
   MockBody(1, [NoFilter EXCEPT !.difficulties = {"EXTREME"}]),
   [MockBody(0, NoFilter) EXCEPT !.examCode = "GATE_XX"],
   [MockBody(1, [NoFilter EXCEPT !.types = {"MSQ"}, !.difficulties = {"HARD"}])
      EXCEPT !.timeLimitMinutes = JNum(0)]}

AssembleAny ==
  \E r \in Serial, userId \in Users, b \in WideMockBodies :
    /\ RoomForMock(b, MaxMocks)
    /\ AssembleMock(r, userId, b.name, b.examCode, b.numQuestions,
                    b.timeLimitMinutes, b.filter)

NextAssemble == AssembleAny

SpecAssemble == Init /\ [][NextAssemble]_vars

\* scoring next to the practice attempt
NextGrade ==
  \/ Assemble
  \/ Submit
  \/ Step
  \/ Finish
  \/ Attempt

SpecGrade == Init /\ [][NextGrade]_vars

\* retakes: two mocks of one question each, submits on both request slots,
\* one after the other or interleaved, and the reads in between
RetakeBodies ==
  {MockBody(1, [NoFilter EXCEPT !.subjectIds = {"s1"},
                                !.difficulties = {"EASY"}]),
   MockBody(1, [NoFilter EXCEPT !.types = {"NAT"},
                                !.difficulties = {"HARD"}])}

\* a right and a wrong answer to the question of either mock; sent to the
\* other mock the response is to a question outside it
RetakeLists ==
  {<<Resp("q1", "o1", JUndefined)>>, <<Resp("q1", "o2", JUndefined)>>,
   <<Resp("q3", Undefined, JNum(31401))>>}

RetakeMockIds == 1..MaxRetakeMocks

RetakeSubmissionIds == 0..MaxRetakes

AssembleRetake ==
  \E r \in Serial, userId \in Owners, b \in RetakeBodies :
    /\ RoomForMock(b, MaxRetakeMocks)
    /\ AssembleMock(r, userId, b.name, b.examCode, b.numQuestions,
                    b.timeLimitMinutes, b.filter)

SubmitRetake ==
  \E r \in Requests, userId \in Owners, mockId \in RetakeMockIds :
    \E responses \in RetakeLists :
      /\ RoomForCall(userId, mockId, responses, MaxRetakes)
      /\ SubmitBegin(r, userId, mockId, responses)

StepAny == \E r \in Requests : SubmitStep(r)

FinishAny == \E r \in Requests : SubmitFinish(r)

AnalysisAny ==
  \E r \in Requests, userId \in Owners, mockId \in RetakeMockIds,
     submissionId \in RetakeSubmissionIds :
    GetAnalysis(r, userId, mockId, submissionId)

ReadMockRetake ==
  \E r \in Serial, userId \in Owners, mockId \in RetakeMockIds :
    GetMock(r, userId, mockId)

NextRetake ==
  \/ AssembleRetake
  \/ SubmitRetake
  \/ StepAny
  \/ FinishAny
  \/ AnalysisAny
  \/ ReadMockRetake

SpecRetake == Init /\ [][NextRetake]_vars

\* analysis of one submission of a mock of five questions, three of them
\* on each of two topics: the questions with a topic, in every order; and
\* of a mock of the two easy questions, one without subject and topic
ReportBodies ==
  {MockBody(SheetQuestions, [NoFilter EXCEPT !.topicIds = {"t1", "t2"}]),
   MockBody(SheetQuestions, [NoFilter EXCEPT !.difficulties = {"EASY"}])}

\* what the answer sheet holds for each question, if anything: a right or a
\* wrong answer where the question has one, with the time it took
SheetChoices ==
  [q1 |-> {<<>>,
           <<[Resp("q1", "o1", JUndefined) EXCEPT !.timeTakenSeconds = 10]>>,
           <<[Resp("q1", "o2", JUndefined) EXCEPT !.timeTakenSeconds = 20]>>},
   q2 |-> {<<>>, <<Resp("q2", "o3", JUndefined)>>},
   q3 |-> {<<>>,
           <<[Resp("q3", Undefined, JNum(31401)) EXCEPT
                !.timeTakenSeconds = 45]>>,
           <<Resp("q3", Undefined, JNum(31402))>>},
   q5 |-> {<<>>, <<Resp("q5", Undefined, JNum(31400))>>},
   q6 |-> {<<Resp("q6", "o5", JUndefined)>>,
           <<[Resp("q6", "o6", JUndefined) EXCEPT !.timeTakenSeconds = 15]>>}]

\* the answer sheets: at most one response per question, in the order of
\* the question ids
AnswerSheets ==
  {a \o b \o c \o d \o e :
     a \in SheetChoices.q1, b \in SheetChoices.q2, c \in SheetChoices.q3,
     d \in SheetChoices.q5, e \in SheetChoices.q6}

AssembleReport ==
  \E r \in Serial, userId \in Owners, b \in ReportBodies :
    /\ RoomForMock(b, MaxMocks)
    /\ AssembleMock(r, userId, b.name, b.examCode, b.numQuestions,
                    b.timeLimitMinutes, b.filter)

SubmitSheet ==
  \E r \in Serial, userId \in Owners, mockId \in 1..MaxMocks :
    \E responses \in AnswerSheets :
      /\ RoomForCall(userId, mockId, responses, MaxCalls)
      /\ SubmitBegin(r, userId, mockId, responses)

AnalysisReport ==
  \E r \in Serial, userId \in Owners, mockId \in 1..MaxMocks :
    GetAnalysis(r, userId, mockId, 0)

NextReport ==
  \/ AssembleReport
  \/ SubmitSheet
  \/ Step
  \/ Finish
  \/ AnalysisReport

SpecReport == Init /\ [][NextReport]_vars

\* answers of every kind to an MCQ, an MSQ and a NAT question, scored in a
\* submission and in a practice attempt: a mock of the two questions of
\* the second exam and a mock of the NAT question q3
AnswerBodies ==
  {[MockBody(2, NoFilter) EXCEPT !.examCode = "GATE_EC"],
   MockBody(1, [NoFilter EXCEPT !.types = {"NAT"},
                                !.difficulties = {"HARD"}])}

\* a flagged option, an option not flagged, an option of another question
\* and no option; numbers at, inside and outside the tolerance on either
\* side of 3.14
AnswerInputs ==
  {Resp("q7", "o7", JUndefined), Resp("q7", "o8", JUndefined),
   Resp("q7", "o9", JUndefined), Resp("q7", Undefined, JUndefined),
   Resp("q8", "o9", JUndefined), Resp("q8", "o10", JUndefined),
   Resp("q8", "o11", JUndefined), Resp("q8", "o7", JUndefined),
   Resp("q3", Undefined, JNum(31400)), Resp("q3", Undefined, JNum(31401)),
   Resp("q3", Undefined, JNum(31402)), Resp("q3", Undefined, JNum(31399)),
   Resp("q3", Undefined, JNum(31398))}

\* one answer, or an answer to each question of the second exam
AnswerLists ==
  {<<x>> : x \in AnswerInputs}
    \cup {<<x, y>> : x \in {z \in AnswerInputs : z.questionId = "q7"},
                     y \in {z \in AnswerInputs : z.questionId = "q8"}}

AssembleAnswer ==
  \E r \in Serial, userId \in Owners, b \in AnswerBodies :
    /\ RoomForMock(b, MaxMocks)
    /\ AssembleMock(r, userId, b.name, b.examCode, b.numQuestions,
                    b.timeLimitMinutes, b.filter)

SubmitAnswer ==
  \E r \in Serial, userId \in Owners, mockId \in 1..MaxMocks :
    \E responses \in AnswerLists :
      /\ RoomForCall(userId, mockId, responses, MaxCalls)
      /\ SubmitBegin(r, userId, mockId, responses)

AttemptAnswer ==
  \E r \in Serial, userId \in Owners, x \in AnswerInputs :
    AttemptQuestion(r, userId, x.questionId, x.selectedOptionId,
                    x.numericAnswer)

NextAnswer ==
  \/ AssembleAnswer
  \/ SubmitAnswer
  \/ Step
  \/ Finish
  \/ AttemptAnswer

SpecAnswer == Init /\ [][NextAnswer]_vars

\* bookmarks: requests of two users on two questions and on a question
\* that does not exist, with every action, none and an unknown one
BookmarkQuestions == {"q1", "q2", "qx"}

BookmarkActions == {"add", "remove", "toggle", Undefined, "flip"}

\* the model stops creating Bookmark rows at MaxBookmarks
RoomForBookmark(action) ==
  ActionOf(action) \in {"add", "toggle"} =>
    Len(bookmark) + Cardinality({r \in Requests : inflight[r].pc = "toggle"})
      < MaxBookmarks

Bookmark ==
  \E r \in Serial, userId \in Users, questionId \in BookmarkQuestions,
     action \in BookmarkActions :
    /\ RoomForBookmark(action)
    /\ BookmarkBegin(r, userId, questionId, action)

Toggle == \E r \in Serial : BookmarkToggle(r)

NextBookmark ==
  \/ Bookmark
  \/ Toggle

SpecBookmark == Init /\ [][NextBookmark]_vars

\* two requests at a time by one user for one question
BookmarkRace ==
  \E r \in Requests, action \in {"add", "remove", "toggle"} :
    /\ RoomForBookmark(action)
    /\ BookmarkBegin(r, "u1", "q1", action)

ToggleRace == \E r \in Requests : BookmarkToggle(r)

NextBookmarkRace ==
  \/ BookmarkRace
  \/ ToggleRace

SpecBookmarkRace == Init /\ [][NextBookmarkRace]_vars

\* admin questions: creates and updates of MCQ, MSQ and NAT questions,
\* with and without topics, tags, slugs, options and solution, of
\* questions that exist and of one that does not, and requests that fail
\* each validation
AdminUsers == {"u1", Undefined}

AdminBody ==
  [id |-> 0, examCode |-> "GATE_CSE", subjectId |-> "s1",
   question |-> "text", year |-> JNum(2024 * Scale), marks |-> JNum(Scale),
   type |-> "MCQ", difficulty |-> "EASY",
   topicIds |-> <<"t1">>, tagIds |-> <<"g1">>, tagSlugs |-> <<>>,
   options |-> <<BodyOption("A", "x", TRUE), BodyOption("B", "y", FALSE)>>,
   solution |-> NoBodySolution]

AdminShapes ==
  {AdminBody,
   [AdminBody EXCEPT !.topicIds = <<>>, !.tagIds = <<>>],
   [AdminBody EXCEPT !.topicIds = <<"t2">>, !.tagIds = <<"g2">>,
                     !.solution = BodySolution(<<"A">>)],
   [AdminBody EXCEPT !.solution = BodySolution(<<>>)],
   [AdminBody EXCEPT !.type = "MSQ", !.tagSlugs = <<"PYQ", " ", "none">>,
                     !.options = <<BodyOption("A", "x", TRUE),
                                   BodyOption(" ", "y", TRUE),
                                   BodyOption("C", Undefined, FALSE)>>],
   [AdminBody EXCEPT !.type = "nat", !.difficulty = "hard",
                     !.topicIds = <<>>, !.tagIds = <<>>,
                     !.solution = BodySolution(<<"3", ".", "1", "4">>)],
   [AdminBody EXCEPT !.type = "NAT", !.tagSlugs = <<"high-weightage">>,
                     !.solution = BodySolution(<<"7">>),
                     !.marks = JStr(<<"2">>)]}

AdminRefused ==
  {[AdminBody EXCEPT !.examCode = Undefined],
   [AdminBody EXCEPT !.subjectId = " "],
   [AdminBody EXCEPT !.question = ""],
   [AdminBody EXCEPT !.year = JStr(<<"x">>)],
   [AdminBody EXCEPT !.marks = JNum(0)],
   [AdminBody EXCEPT !.marks = JUndefined],
   [AdminBody EXCEPT !.type = "ESSAY"],
   [AdminBody EXCEPT !.difficulty = Undefined],
   [AdminBody EXCEPT !.options = <<>>],
   [AdminBody EXCEPT !.options = <<BodyOption(" ", "x", TRUE)>>],
   [AdminBody EXCEPT !.options = <<BodyOption("A", "x", FALSE)>>],
   [AdminBody EXCEPT !.type = "NAT"],
   [AdminBody EXCEPT !.type = "NAT", !.solution = BodySolution(<<>>)],
   [AdminBody EXCEPT !.examCode = "GATE_XX"],
   [AdminBody EXCEPT !.examCode = "GATE_EC"],
   [AdminBody EXCEPT !.subjectId = "sx"],
   [AdminBody EXCEPT !.topicIds = <<"t1", "t1">>],
   [AdminBody EXCEPT !.topicIds = <<"tx">>],
   [AdminBody EXCEPT !.tagIds = <<"g1", "g1">>],
   [AdminBody EXCEPT !.marks = JNum(Scale + Scale \div 2)]}

\* the ids an update names: the questions the catalog can hold and one
\* more
AdminIds == 0..(MaxCatalog + 1)

AdminBodies ==
  {[b EXCEPT !.id = i] : b \in AdminShapes, i \in AdminIds}
    \cup AdminRefused
    \cup {[b EXCEPT !.id = 1] : b \in AdminRefused}

\* the model stops creating questions at MaxCatalog
RoomForQuestion(body) == body.id = 0 => Len(catalog) < MaxCatalog

AdminSave ==
  \E r \in Serial, userId \in AdminUsers, body \in AdminBodies :
    /\ RoomForQuestion(body)
    /\ AdminSaveQuestion(r, userId, body)

NextAdmin == AdminSave

SpecAdmin == Init /\ [][NextAdmin]_vars


(* ============================== properties ============================= *)

Columns(row) ==
  [questionId |-> row.questionId,
   selectedOptionId |-> row.selectedOptionId,
   numericAnswer |-> row.numericAnswer,
   isCorrect |-> row.isCorrect,
   timeTakenSeconds |-> row.timeTakenSeconds]

ColumnsOf(rows) == [k \in 1..Len(rows) |-> Columns(rows[k])]

\* QuestionAttempt rows with mode=mock written by submit invocation c
AttemptRowsOf(c) ==
  ColumnsOf(SelectSeq(questionAttempt,
                      LAMBDA a : a.mode = "mock" /\ a.call = c))

\* MockQuestionResponse rows of the MockSubmission written by invocation c
ResponseRowsOf(c) ==
  IF \E k \in 1..Len(mockSubmission) : mockSubmission[k].call = c
  THEN ColumnsOf(mockSubmission[CHOOSE k \in 1..Len(mockSubmission) :
                                  mockSubmission[k].call = c].responses)
  ELSE <<>>

InFlight(c) ==
  \E r \in Requests : inflight[r].pc = "loop" /\ inflight[r].call = c

MockQuestionIds(m) == {m.questions[k].questionId : k \in 1..Len(m.questions)}

\* marks of the questions of the rows flagged correct, one term per row
CorrectMarks(rows) ==
  SumSeq([k \in 1..Len(rows) |->
            IF rows[k].isCorrect THEN question[rows[k].questionId].marks
            ELSE 0])

SubmitReplies ==
  {r \in Requests : reply[r].op = "submit" /\ reply[r].status = 200}

\* C1: for every submit invocation that has returned, with success or with an
\* error, the mode=mock QuestionAttempt rows it wrote are exactly the
\* MockQuestionResponse rows of its MockSubmission: all of them exist or none
C1_SubmitAtomic ==
  \A c \in 1..calls : ~ InFlight(c) => AttemptRowsOf(c) = ResponseRowsOf(c)

\* C2: a MockSubmission owns at most one MockQuestionResponse row per
\* Question, whatever the submitted list repeats
C2_OneResponsePerQuestion ==
  \A k \in 1..Len(mockSubmission) :
    LET rows == mockSubmission[k].responses
    IN  \A i, j \in 1..Len(rows) :
          rows[i].questionId = rows[j].questionId => i = j

\* C3: the totalScore persisted with a MockSubmission, and the one returned
\* with it, is the sum of the marks of the questions of its responses that
\* are flagged correct; the other responses add nothing
C3_TotalScoreIsCorrectMarks ==
  /\ \A k \in 1..Len(mockSubmission) :
       mockSubmission[k].totalScore = CorrectMarks(mockSubmission[k].responses)
  /\ \A r \in SubmitReplies :
       /\ reply[r].totalScore = mockSubmission[reply[r].submissionId].totalScore
       /\ reply[r].totalScore = CorrectMarks(reply[r].responses)

C3_Witness ==
  \E k \in 1..Len(mockSubmission) :
    LET rows == mockSubmission[k].responses
    IN  /\ \E i \in 1..Len(rows) : rows[i].isCorrect
        /\ \E i \in 1..Len(rows) : ~ rows[i].isCorrect
        /\ mockSubmission[k].totalScore > 0

\* C4: the order values of the MockQuestion rows of every Mock are exactly
\* 1..N, N the number of its questions, each once, and no Question is in a
\* Mock twice
C4_OrderIsPermutation ==
  \A k \in 1..Len(mock) :
    LET qs == mock[k].questions
    IN  /\ {qs[i].order : i \in 1..Len(qs)} = 1..Len(qs)
        /\ \A i, j \in 1..Len(qs) :
             (qs[i].order = qs[j].order \/ qs[i].questionId = qs[j].questionId)
               => i = j

C4_Witness ==
  \E k \in 1..Len(mock) :
    /\ Len(mock[k].questions) = 2
    /\ mock[k].questions[1].questionId # "q1"

AssembleReplies ==
  {r \in Requests : reply[r].op = "assemble" /\ reply[r].status = 200}

\* C5: a Mock assembled for numQuestions = k from a non-empty pool of m
\* candidates holds exactly min(k, m) questions, all different and all of the
\* pool; a pool smaller than k still yields a Mock
C5_SamplingBound ==
  \A r \in AssembleReplies :
    LET qs == mock[reply[r].id].questions
        m == Cardinality(reply[r].pool)
    IN  /\ m > 0
        /\ Len(qs) = Min(reply[r].numQuestions, m)
        /\ Cardinality(MockQuestionIds(mock[reply[r].id])) = Len(qs)
        /\ MockQuestionIds(mock[reply[r].id]) \subseteq reply[r].pool

\* a pool of one candidate for a request of two
C5_Witness ==
  \E r \in AssembleReplies :
    /\ Cardinality(reply[r].pool) < reply[r].numQuestions
    /\ Len(mock[reply[r].id].questions) = Cardinality(reply[r].pool)

\* every row that records a graded answer: the QuestionAttempt rows and the
\* MockQuestionResponse rows of all submissions
RECURSIVE AllResponseRows(_)
AllResponseRows(k) ==
  IF k = 0 THEN <<>>
  ELSE AllResponseRows(k - 1) \o ColumnsOf(mockSubmission[k].responses)

GradedRowSet ==
  Range(ColumnsOf(questionAttempt))
    \cup Range(AllResponseRows(Len(mockSubmission)))

PracticeRowSet == Range(ColumnsOf(PracticeRows))

\* a non-NAT question none of whose options is flagged correct
Unkeyed(q) == q.type # "NAT" /\ Len(CorrectOptionIds(q)) = 0

\* a NAT question without Solution
Unsolved(q) == q.type = "NAT" /\ ~ q.solution.present

\* C6: no MockQuestionResponse and no QuestionAttempt row records an answer
\* to a question without correct option as incorrect: such a response is
\* skipped by the scorer and refused by the practice attempt
C6_UnkeyedNotIncorrect ==
  \A row \in GradedRowSet :
    Unkeyed(question[row.questionId]) => row.isCorrect

\* the practice attempt alone logs no row for a question without correct
\* option
C6_PracticeRefusesUnkeyed ==
  \A row \in PracticeRowSet : ~ Unkeyed(question[row.questionId])

\* a row for a NAT question that holds no number, or whose question has a
\* Solution that parses to no number
NoNumber(row) ==
  LET q == question[row.questionId]
  IN  /\ q.type = "NAT"
      /\ q.solution.present
      /\ \/ row.numericAnswer.t # "num"
         \/ parseFloat(q.solution.answerText) = NaN

\* C7: no MockQuestionResponse and no QuestionAttempt row records as
\* incorrect an answer to a NAT question that carries no number or whose
\* Solution is not a number: that is a ValidationError, not a graded result
C7_NoNumberNotIncorrect ==
  \A row \in GradedRowSet : NoNumber(row) => row.isCorrect

\* the practice attempt alone logs no such row
C7_PracticeRefusesNoNumber ==
  \A row \in PracticeRowSet : ~ NoNumber(row)

\* the rows that grading every response of the list to a question of the
\* mock yields, in the order of the list
GradedRows(list, questionMap) ==
  LET known == SelectSeq(list, LAMBDA x : x.questionId \in DOMAIN questionMap)
  IN  [k \in 1..Len(known) |->
         [questionId |-> known[k].questionId,
          selectedOptionId |-> IdOrNull(known[k].selectedOptionId),
          numericAnswer |-> OrNull(known[k].numericAnswer),
          isCorrect |->
            GradeMockResponse(questionMap[known[k].questionId],
                              known[k]).isCorrect,
          timeTakenSeconds |-> known[k].timeTakenSeconds]]

\* the list without its responses to NAT questions that lack a Solution
WithoutUnsolved(list, questionMap) ==
  SelectSeq(list, LAMBDA x : ~ (x.questionId \in DOMAIN questionMap
                                /\ Unsolved(questionMap[x.questionId])))

\* C8: after a successful submit, a response to a NAT question without
\* Solution has left no MockQuestionResponse, no QuestionAttempt and no
\* score, and the rows and the score are those of the list without it
C8_UnsolvedSkipped ==
  \A r \in SubmitReplies :
    LET sub == mockSubmission[reply[r].submissionId]
        questionMap == QuestionMap(mock[sub.mockId], question)
        rows == GradedRows(WithoutUnsolved(reply[r].request, questionMap),
                           questionMap)
    IN  /\ ColumnsOf(sub.responses) = rows
        /\ AttemptRowsOf(reply[r].call) = rows
        /\ sub.totalScore = CorrectMarks(rows)
        /\ \A k \in 1..Len(reply[r].responses) :
             ~ Unsolved(question[reply[r].responses[k].questionId])

\* a successful submit of a response to a NAT question without Solution next
\* to a response that was graded
C8_Witness ==
  \E r \in SubmitReplies :
    /\ \E i \in 1..Len(reply[r].request) :
         LET x == reply[r].request[i]
         IN  /\ x.questionId \in MockQuestionIds(mock[reply[r].mockId])
             /\ Unsolved(question[x.questionId])
    /\ Len(mockSubmission[reply[r].submissionId].responses) > 0

\* C9: no MockQuestionResponse row, no mode=mock QuestionAttempt row and no
\* returned response is for a question outside the Mock that was scored, and
\* totalScore counts the responses to the Mock's questions only
C9_ForeignQuestionSkipped ==
  /\ \A k \in 1..Len(mockSubmission) :
       LET sub == mockSubmission[k]
           own == MockQuestionIds(mock[sub.mockId])
       IN  /\ \A i \in 1..Len(sub.responses) :
                sub.responses[i].questionId \in own
           /\ sub.totalScore =
                CorrectMarks(SelectSeq(sub.responses,
                                       LAMBDA x : x.questionId \in own))
  /\ \A k \in 1..Len(questionAttempt) :
       questionAttempt[k].mode = "mock" =>
         questionAttempt[k].questionId
           \in MockQuestionIds(mock[questionAttempt[k].mockId])
  /\ \A r \in SubmitReplies :
       \A i \in 1..Len(reply[r].responses) :
         reply[r].responses[i].questionId
           \in MockQuestionIds(mock[reply[r].mockId])

\* a successful submit whose list held a response to a question of the bank
\* that is not in the mock, next to a response that was graded
C9_Witness ==
  \E r \in SubmitReplies :
    /\ \E i \in 1..Len(reply[r].request) :
         /\ reply[r].request[i].questionId \in DOMAIN question
         /\ reply[r].request[i].questionId
              \notin MockQuestionIds(mock[reply[r].mockId])
    /\ Len(mockSubmission[reply[r].submissionId].responses) > 0

\* the reply of a refused request: the error and nothing of the mock
Refusal(o, kind, userId, mockId) ==
  [op |-> o, status |-> ErrorStatus(kind), error |-> kind,
   caller |-> userId, mockId |-> mockId]

\* what a step that answers request slot r owes the claim
AccessStep(r) ==
  /\ (/\ reply'[r] # reply[r]
      /\ reply'[r].op = "submit"
      /\ reply'[r].status \in {400, 403, 404})
       => UNCHANGED <<tables, inflight, calls>>
  /\ inflight'[r].pc = "loop" =>
       /\ inflight'[r].mockId \in 1..Len(mock)
       /\ mock[inflight'[r].mockId].userId = inflight'[r].userId
       /\ Len(inflight'[r].responses) > 0
  /\ (/\ reply'[r] # reply[r]
      /\ reply'[r].op \in {"analysis", "mock"}
      /\ reply'[r].mockId \in 1..Len(mock)
      /\ mock[reply'[r].mockId].userId # reply'[r].caller)
       => /\ reply'[r] = Refusal(reply'[r].op, "Forbidden", reply'[r].caller,
                                 reply'[r].mockId)
          /\ UNCHANGED <<tables, inflight, calls>>

\* C10: a submit answered NotFound, Forbidden or ValidationError writes no
\* row; only the owner of an existing Mock with a non-empty list gets as far
\* as the scoring loop; the analysis and the fetch of a Mock by another user
\* answer Forbidden and nothing else
C10_RefusedWithoutEffect == [][\A r \in Requests : AccessStep(r)]_vars

\* a submit by another user than the owner was answered Forbidden while the
\* Mock had a submission of its owner
C10_Witness ==
  \E r \in Requests :
    /\ reply[r].op = "submit"
    /\ reply[r].status = 403
    /\ \E k \in 1..Len(mockSubmission) :
         mockSubmission[k].mockId = reply[r].mockId

\* the submit invocation of slot r returns success with this step
Returns(r) ==
  /\ inflight[r].pc = "loop"
  /\ inflight'[r] = Idle
  /\ reply'[r].op = "submit"
  /\ reply'[r].status = 200

\* what a step owes the claim: the rows there are stay as they are, and a
\* submit that returns has added one row with a fresh id, for its mock and
\* user, holding the graded responses of its own list and their score
RetakeStep ==
  /\ Len(mockSubmission') >= Len(mockSubmission)
  /\ \A k \in 1..Len(mockSubmission) : mockSubmission'[k] = mockSubmission[k]
  /\ \A i, j \in 1..Len(mockSubmission') :
       mockSubmission'[i].id = mockSubmission'[j].id => i = j
  /\ \A r \in Requests :
       Returns(r) =>
         LET s == inflight[r]
             questionMap == QuestionMap(mock[s.mockId], question)
             rows == GradedRows(WithoutUnsolved(s.responses, questionMap),
                                questionMap)
             n == Len(mockSubmission')
         IN  /\ n = Len(mockSubmission) + 1
             /\ reply'[r].submissionId = mockSubmission'[n].id
             /\ mockSubmission'[n].mockId = s.mockId
             /\ mockSubmission'[n].userId = s.userId
             /\ ColumnsOf(mockSubmission'[n].responses) = rows
             /\ mockSubmission'[n].totalScore = CorrectMarks(rows)
             /\ reply'[r].totalScore = CorrectMarks(rows)

\* C11: submits are not deduplicated: every successful submit, after or
\* during another one for the same Mock and user, adds a MockSubmission row
\* of its own with the responses and the score of its own list, and no step
\* changes or removes a row that exists
C11_SubmitsAreIndependent == [][RetakeStep]_vars

\* two submissions of one user for one Mock with different scores, the one
\* begun first stored last: the invocations overlapped
C11_Witness ==
  \E i, j \in 1..Len(mockSubmission) :
    /\ i < j
    /\ mockSubmission[i].call > mockSubmission[j].call
    /\ mockSubmission[i].mockId = mockSubmission[j].mockId
    /\ mockSubmission[i].userId = mockSubmission[j].userId
    /\ mockSubmission[i].totalScore # mockSubmission[j].totalScore

\* positions of the rows of the MockSubmission table for a mock and a user;
\* a row created later stands at a greater position
PositionsOf(mockId, userId) ==
  {k \in 1..Len(mockSubmission) : /\ mockSubmission[k].mockId = mockId
                                  /\ mockSubmission[k].userId = userId}

\* k is the position of the row created last for the mock and the user
MostRecent(k, mockId, userId) ==
  /\ k \in PositionsOf(mockId, userId)
  /\ \A j \in PositionsOf(mockId, userId) : j <= k

\* what a read of a mock by its owner, answered on slot r with this step,
\* owes the claim: submission id 0 is the absent query parameter
LatestStep(r) ==
  LET new == reply'[r]
      mockId == new.mockId
      userId == new.caller
  IN  (/\ new # reply[r]
       /\ new.op \in {"analysis", "mock"}
       /\ mockId \in 1..Len(mock)
       /\ mock[mockId].userId = userId)
        => /\ GetAnalysis(r, userId, mockId, 0) =>
                IF PositionsOf(mockId, userId) = {}
                THEN new.status = 404 /\ new.error = "NotFound"
                ELSE /\ new.status = 200
                     /\ MostRecent(new.sid, mockId, userId)
                     /\ new.data.submission.id = mockSubmission[new.sid].id
                     /\ new.data.submission.totalScore
                          = mockSubmission[new.sid].totalScore
           /\ GetMock(r, userId, mockId) =>
                /\ new.status = 200
                /\ IF PositionsOf(mockId, userId) = {}
                   THEN new.latestSubmission = 0
                   ELSE MostRecent(new.latestSubmission, mockId, userId)

AnsweredIn(m, sub) ==
  {q \in MockQuestionIds(m) :
     \E k \in 1..Len(sub.responses) : sub.responses[k].questionId = q}

\* what an analysis asked for with a submission id by the owner of the
\* mock, answered on slot r with this step, owes the claim
OneSubmissionStep(r) ==
  LET new == reply'[r]
      mockId == new.mockId
      userId == new.caller
  IN  (/\ new # reply[r]
       /\ new.op = "analysis"
       /\ mockId \in 1..Len(mock)
       /\ mock[mockId].userId = userId)
        => \A submissionId \in 1..(Len(mockSubmission) + 1) :
             GetAnalysis(r, userId, mockId, submissionId) =>
               IF submissionId \notin PositionsOf(mockId, userId)
               THEN new.status = 404 /\ new.error = "NotFound"
               ELSE LET sub == mockSubmission[submissionId]
                    IN  /\ new.status = 200
                        /\ new.sid = submissionId
                        /\ new.data.submission.id = sub.id
                        /\ new.data.overall.totalScore = sub.totalScore
                        /\ new.data.overall.attempted
                             = Cardinality(AnsweredIn(mock[mockId], sub))
                        /\ new.data = Report(<<sub>>, mock[mockId], 1,
                                             submissionId)

\* C13: the analysis with a submission id that is no submission of the
\* caller for the Mock answers NotFound; otherwise it reports on that
\* submission alone: the report is the one a store holding no other
\* submission yields
C13_OneSubmissionOnly == [][\A r \in Requests : OneSubmissionStep(r)]_vars

\* the analysis reported on the first of two submissions of a Mock that
\* differ in their responses
C13_Witness ==
  \E r \in Requests :
    /\ reply[r].op = "analysis"
    /\ reply[r].status = 200
    /\ reply[r].submissionId # 0
    /\ \E k \in PositionsOf(reply[r].mockId, reply[r].caller) :
         /\ k > reply[r].sid
         /\ mockSubmission[k].responses
              # mockSubmission[reply[r].sid].responses
         /\ Len(mockSubmission[k].responses) > 0

AnalysisReports(replies) ==
  {r \in Requests : replies[r].op = "analysis" /\ replies[r].status = 200}

\* what a step owes the claim: a step that answers an analysis writes no
\* row, and the reports held for one mock and one submission are equal
PureReadStep ==
  /\ \A r \in Requests :
       (reply'[r] # reply[r] /\ reply'[r].op = "analysis")
         => UNCHANGED <<tables, inflight, calls>>
  /\ \A r1, r2 \in AnalysisReports(reply') :
       (/\ reply'[r1].mockId = reply'[r2].mockId
        /\ reply'[r1].sid = reply'[r2].sid)
         => reply'[r1].data = reply'[r2].data

\* C14: the analysis writes nothing, and two analyses of the same Mock and
\* MockSubmission return the same report: the same aggregates, the same
\* buckets in the same order and the same weakTopics
C14_AnalysisIsPureRead == [][PureReadStep]_vars

\* two reports on the first submission of a Mock, one asked for without
\* submission id before the Mock was submitted again, one with its id
C14_Witness ==
  \E r1, r2 \in AnalysisReports(reply) :
    /\ r1 # r2
    /\ reply[r1].mockId = reply[r2].mockId
    /\ reply[r1].sid = reply[r2].sid
    /\ reply[r1].submissionId = 0
    /\ reply[r2].submissionId # 0
    /\ \E k \in PositionsOf(reply[r1].mockId, reply[r1].caller) :
         k > reply[r1].sid

\* the questions of mock m that a response of submission sub answers
\* correctly
CorrectIn(m, sub) ==
  {q \in MockQuestionIds(m) :
     \E k \in 1..Len(sub.responses) : /\ sub.responses[k].questionId = q
                                      /\ sub.responses[k].isCorrect}

\* sum of the marks of a set of questions
RECURSIVE MarksOf(_)
MarksOf(qids) ==
  IF qids = {} THEN 0
  ELSE LET q == CHOOSE q \in qids : TRUE
       IN  question[q].marks + MarksOf(qids \ {q})

BucketCounts(bucket, qids, m, sub) ==
  /\ bucket.totalQuestions = Cardinality(qids)
  /\ bucket.attempted = Cardinality(qids \cap AnsweredIn(m, sub))
  /\ bucket.correct = Cardinality(qids \cap CorrectIn(m, sub))

IsQuotientOrZero(value, n, d) ==
  /\ value.den > 0
  /\ IF d > 0 THEN value.num * d = n * value.den
     ELSE value.num = 0

\* seconds of the responses of submission sub to the questions of mock m
RECURSIVE TimeOf(_, _, _)
TimeOf(m, sub, k) ==
  IF k = 0 THEN 0
  ELSE TimeOf(m, sub, k - 1)
         + (IF sub.responses[k].questionId \in MockQuestionIds(m)
            THEN sub.responses[k].timeTakenSeconds ELSE 0)

\* C17: in every report the accuracy of the overall block and of every
\* subject, topic and difficulty bucket is correct / attempted, and 0 for a
\* bucket without attempt; avgTimePerQuestion is totalTimeTaken / attempted,
\* and 0 without attempt; each is a number
C17_AccuracyDefined ==
  \A r \in AnalysisReports(reply) :
    LET data == reply[r].data
        sub == mockSubmission[reply[r].sid]
        Holds(bucket) ==
          IsQuotientOrZero(bucket.accuracy, bucket.correct, bucket.attempted)
    IN  /\ Holds(data.overall)
        /\ \A k \in 1..Len(data.bySubject) : Holds(data.bySubject[k])
        /\ \A k \in 1..Len(data.byTopic) : Holds(data.byTopic[k])
        /\ \A d \in DOMAIN data.byDifficulty : Holds(data.byDifficulty[d])
        /\ data.overall.totalTimeTaken
             = TimeOf(mock[reply[r].mockId], sub, Len(sub.responses))
        /\ IsQuotientOrZero(data.overall.avgTimePerQuestion,
                            data.overall.totalTimeTaken,
                            data.overall.attempted)

\* a report with a topic bucket and a difficulty bucket that hold questions
\* but no attempt, next to an overall accuracy between 0 and 1 and an
\* average time that is no whole number of seconds
C17_Witness ==
  \E r \in AnalysisReports(reply) :
    LET data == reply[r].data
    IN  /\ \E k \in 1..Len(data.byTopic) :
             /\ data.byTopic[k].attempted = 0
             /\ data.byTopic[k].totalQuestions > 0
        /\ \E d \in DOMAIN data.byDifficulty :
             /\ data.byDifficulty[d].attempted = 0
             /\ data.byDifficulty[d].totalQuestions > 0
        /\ data.overall.accuracy.num > 0
        /\ data.overall.accuracy.num < data.overall.accuracy.den
        /\ data.overall.avgTimePerQuestion.den > 1

\* C18: weakTopics of every report lists the topic buckets with at least 3
\* attempts and an accuracy below 0.6, that is 5 * correct < 3 * attempted,
\* each once with the counts of its bucket, and no other; an entry never
\* has a lower accuracy than the one before it
C18_WeakTopics ==
  \A r \in AnalysisReports(reply) :
    LET byTopic == reply[r].data.byTopic
        weakTopics == reply[r].data.weakTopics
        weak == {k \in 1..Len(byTopic) :
                   /\ byTopic[k].attempted >= 3
                   /\ 5 * byTopic[k].correct < 3 * byTopic[k].attempted}
    IN  /\ Len(weakTopics) = Cardinality(weak)
        /\ \A k \in weak :
             \E i \in 1..Len(weakTopics) :
               /\ weakTopics[i].topicId = byTopic[k].topicId
               /\ weakTopics[i].topicName = byTopic[k].topicName
               /\ weakTopics[i].attempted = byTopic[k].attempted
               /\ weakTopics[i].correct = byTopic[k].correct
               /\ weakTopics[i].accuracy = byTopic[k].accuracy
        /\ \A i, j \in 1..Len(weakTopics) :
             i < j =>
               weakTopics[i].correct * weakTopics[j].attempted
                 <= weakTopics[j].correct * weakTopics[i].attempted

\* a report with two weak topics of different accuracy, listed in the
\* reverse of the order of their buckets
C18_Witness ==
  \E r \in AnalysisReports(reply) :
    LET byTopic == reply[r].data.byTopic
        weakTopics == reply[r].data.weakTopics
    IN  /\ Len(weakTopics) = 2
        /\ Len(byTopic) = 2
        /\ weakTopics[1].topicId = byTopic[2].topicId
        /\ weakTopics[1].correct * weakTopics[2].attempted
             < weakTopics[2].correct * weakTopics[1].attempted

\* the names a request spells, whatever the case of its letters
Spelled(values) == {toUpperCase(v) : v \in values}

\* question q satisfies every dimension that filter f supplies
Satisfies(q, f) ==
  /\ f.subjectIds = {} \/ q.subjectId \in f.subjectIds
  /\ f.topicIds = {} \/ \E topicId \in f.topicIds : topicId \in q.topics
  /\ f.difficulties = {} \/ q.difficulty \in Spelled(f.difficulties)
  /\ f.types = {} \/ q.type \in Spelled(f.types)
  /\ f.marks = {} \/ q.marks \in f.marks
  /\ f.formulaBased = Undefined
       \/ (f.formulaBased = "true" /\ q.isFormulaBased)
       \/ (f.formulaBased = "false" /\ ~q.isFormulaBased)
  /\ (f.tagIds = {} /\ f.tagSlugs = {})
       \/ \E tag \in TagRows :
            /\ tag.id \in q.tags
            /\ tag.id \in f.tagIds \/ tag.slug \in f.tagSlugs

ExamMissing(b) == \A e \in ExamRows : e.code # b.examCode

BadCount(b) == b.numQuestions <= 0 \/ b.numQuestions > 100

BadTimeLimit(b) == b.timeLimitMinutes.t # "null" /\ b.timeLimitMinutes.n <= 0

NoMatch(b) ==
  \A e \in ExamRows :
    e.code = b.examCode =>
      \A q \in DOMAIN question :
        ~(question[q].examId = e.id /\ Satisfies(question[q], b.filter))

Refused(new, kind) ==
  /\ new.op = "assemble"
  /\ new.status # 200
  /\ new.error = kind
  /\ tables' = tables

\* the step is not a request with body b, or it ends as the claim says
RefusalStep(r, userId, b) ==
  \/ /\ (BadCount(b) \/ BadTimeLimit(b)) => Refused(reply'[r], "ValidationError")
     /\ (b.name # "" /\ ~BadCount(b) /\ ~BadTimeLimit(b)) =>
          /\ ExamMissing(b) => Refused(reply'[r], "NotFound")
          /\ (~ExamMissing(b) /\ NoMatch(b)) => Refused(reply'[r], "NoCandidates")
  \/ ~AssembleMock(r, userId, b.name, b.examCode, b.numQuestions,
                   b.timeLimitMinutes, b.filter)

\* C19: Assemble Mock answers ValidationError when numQuestions is not
\* positive or exceeds 100 or a given timeLimitMinutes is not positive,
\* NotFound when an otherwise valid request names an exam that does not
\* exist, NoCandidates when no question of the exam matches the filters;
\* each time the Mock and MockQuestion rows stay as they were
C19_AssembleRefusals ==
  [][\A r \in Requests, userId \in Users, b \in WideMockBodies :
       RefusalStep(r, userId, b)]_vars

\* the difficulties and types of body b are names the schema knows
Recognised(b) ==
  /\ Spelled(b.filter.difficulties) \subseteq AllowedDifficulties
  /\ Spelled(b.filter.types) \subseteq AllowedTypes

\* requests whose difficulties and types are all recognised are refused as
\* stated
C19_RecognisedRefusals ==
  [][\A r \in Requests, userId \in Users, b \in WideMockBodies :
       Recognised(b) => RefusalStep(r, userId, b)]_vars

\* a request refused for want of candidates after a mock was assembled
C19_RefusedAfterMock ==
  \E r \in Requests :
    /\ reply[r].op = "assemble"
    /\ reply[r].status # 200
    /\ reply[r].error = "NoCandidates"
    /\ Len(mock) = 1

\* the step is not a request with body b that creates a mock, or the
\* questions of the new mock are as the claim says
FilteredStep(r, userId, b) ==
  \/ Len(mock') # Len(mock) + 1
  \/ LET new == mock'[Len(mock')]
     IN  \A k \in 1..Len(new.questions) :
           LET q == question[new.questions[k].questionId]
           IN  /\ \E e \in ExamRows : e.code = b.examCode /\ q.examId = e.id
               /\ Satisfies(q, b.filter)
  \/ ~AssembleMock(r, userId, b.name, b.examCode, b.numQuestions,
                   b.timeLimitMinutes, b.filter)

\* C20: every question of a mock that Assemble Mock creates belongs to the
\* exam the request names and satisfies each filter dimension the request
\* supplies; with tagIds or tagSlugs supplied it has a tag whose id is in
\* tagIds or whose slug is in tagSlugs; an empty dimension is no constraint
C20_QuestionsMatchFilter ==
  [][\A r \in Requests, userId \in Users, b \in WideMockBodies :
       FilteredStep(r, userId, b)]_vars

\* the questions of a mock assembled from a request whose difficulties and
\* types are all recognised do satisfy the filter
C20_RecognisedMatchFilter ==
  [][\A r \in Requests, userId \in Users, b \in WideMockBodies :
       Recognised(b) => FilteredStep(r, userId, b)]_vars

\* a mock assembled with tagIds g1 and tagSlugs pyq that holds q1, tagged
\* g1 only, and q3, tagged pyq only
C20_TagsByIdOrSlug ==
  \E r \in Requests :
    /\ reply[r].op = "assemble"
    /\ reply[r].status = 200
    /\ reply[r].pool = {"q1", "q3", "q6"}
    /\ MockQuestionIds(mock[reply[r].id]) = {"q1", "q3"}

\* ids of the options of question q that are flagged isCorrect
FlaggedIds(q) == {q.options[k].id : k \in {i \in 1..Len(q.options) : q.options[i].isCorrect}}

\* the entries of the replies to submits and the replies to practice
\* attempts that carry a grade
GradedReplies ==
  UNION {{[questionId |-> e.questionId,
            isCorrect |-> e.isCorrect,
            correctOptionIds |-> e.correctOptionIds] :
             e \in Range(reply[r].responses)} : r \in SubmitReplies}
    \cup {[questionId |-> reply[r].questionId,
           isCorrect |-> reply[r].isCorrect,
           correctOptionIds |-> reply[r].correctOptionIds] :
            r \in {x \in Requests : /\ reply[x].op = "attempt"
                                     /\ reply[x].status = 200}}

NumericRows ==
  {row \in GradedRowSet :
     LET q == question[row.questionId]
     IN  /\ q.type = "NAT"
         /\ q.solution.present
         /\ parseFloat(q.solution.answerText) # NaN
         /\ row.numericAnswer.t = "num"}

\* the distance of the number of a row from the correct value, in units of
\* 1/Scale
Distance(row) ==
  Abs(parseFloat(question[row.questionId].solution.answerText).n
        - row.numericAnswer.n)

\* C22: a number given to a NAT question with a parseable Solution is
\* graded correct exactly when it is at most 0.0001 away from the correct
\* value, the distance 0.0001 itself included, in a submission and in a
\* practice attempt
C22_ToleranceBoundary ==
  \A row \in NumericRows :
    row.isCorrect <=> (10000 * Distance(row) <= 1 * Scale)

\* the example of the specification: against 3.14 the answer 3.1401 is
\* graded correct and 3.1402 incorrect, and so is every answer further away
C22_ExampleOfTheSpec ==
  \A row \in NumericRows :
    /\ (row.questionId = "q3" /\ row.numericAnswer.n = 31401) => row.isCorrect
    /\ (row.questionId = "q3" /\ row.numericAnswer.n = 31402) => ~row.isCorrect
    /\ row.isCorrect => 10000 * Distance(row) <= 1 * Scale

\* Score Submission and the practice attempt grade the same number alike
C22_SameRule ==
  \A a \in NumericRows, b \in NumericRows :
    (a.questionId = b.questionId /\ a.numericAnswer = b.numericAnswer)
      => a.isCorrect = b.isCorrect

\* 3.1399 was graded against 3.14 in a submission and in a practice attempt
C22_BelowGraded ==
  /\ \E k \in 1..Len(mockSubmission) :
       \E i \in 1..Len(mockSubmission[k].responses) :
         mockSubmission[k].responses[i].numericAnswer = JNum(31399)
  /\ \E i \in 1..Len(PracticeRows) :
       PracticeRows[i].numericAnswer = JNum(31399)

\* C23: no MockQuestionResponse row holds both a selectedOptionId and a
\* numericAnswer, whatever the response list submitted
C23_AnswerFieldsExclusive ==
  \A row \in Range(AllResponseRows(Len(mockSubmission))) :
    row.selectedOptionId = Null \/ row.numericAnswer = JNull

\* the Bookmark rows of user userId for question questionId
BookmarksOf(rows, userId, questionId) ==
  {k \in 1..Len(rows) : /\ rows[k].live
                        /\ rows[k].userId = userId
                        /\ rows[k].questionId = questionId}

Present(rows, userId, questionId) == BookmarksOf(rows, userId, questionId) # {}

LiveRows(rows) == {k \in 1..Len(rows) : rows[k].live}

AtMostOneBookmark(rows) ==
  \A userId \in Users, questionId \in BookmarkQuestions :
    Cardinality(BookmarksOf(rows, userId, questionId)) <= 1

\* request slot r returns from a bookmark request in this step
BookmarkReturns(r) ==
  /\ inflight'[r] = Idle
  /\ reply'[r].op = "bookmark"
  /\ \/ BookmarkToggle(r)
     \/ \E userId \in Users, questionId \in BookmarkQuestions,
           action \in BookmarkActions :
          BookmarkBegin(r, userId, questionId, action)

\* a request of one user on one existing question, no other in progress
BookmarkStep(r) ==
  (BookmarkReturns(r) /\ reply'[r].status # 404 /\ reply'[r].status # 400) =>
    LET userId == reply'[r].caller
        questionId == reply'[r].questionId
        action == reply'[r].action
        before == Present(bookmark, userId, questionId)
        after == Present(bookmark', userId, questionId)
    IN  /\ reply'[r].status = 200
        /\ action = "add" => after
        /\ action = "remove" => ~after
        /\ action = "toggle" => (after <=> ~before)
        /\ reply'[r].isBookmarked <=> after
        /\ (action = "add" /\ before) => LiveRows(bookmark') = LiveRows(bookmark)
        /\ (action = "remove" /\ ~before) =>
             LiveRows(bookmark') = LiveRows(bookmark)
        /\ AtMostOneBookmark(bookmark')

\* C24: requests coming one after the other, add leaves the bookmark of
\* the user for the question present, remove leaves it absent, toggle
\* flips it, and the isBookmarked returned says whether the row exists
\* after the request; an add on a present and a remove on an absent
\* bookmark change no row, so both are idempotent, and two toggles in a
\* row flip twice; there is never more than one row per user and question
C24_BookmarkActions ==
  [][\A r \in Requests : BookmarkStep(r)]_vars

\* a toggle removed the bookmark that an add before it had created, while
\* an older, deleted row of the pair exists
C24_Witness ==
  \E r \in Requests :
    /\ reply[r].op = "bookmark"
    /\ reply[r].status = 200
    /\ reply[r].action = "toggle"
    /\ ~reply[r].isBookmarked
    /\ \E i, j \in 1..Len(bookmark) :
         /\ i < j
         /\ bookmark[i].userId = reply[r].caller
         /\ bookmark[j].userId = reply[r].caller
         /\ bookmark[i].questionId = reply[r].questionId
         /\ bookmark[j].questionId = reply[r].questionId
         /\ ~bookmark[i].live
         /\ ~bookmark[j].live

\* a request returns with the claimed outcome: no internal error, the
\* isBookmarked of the state its write left, one row at most
RaceStep(r) ==
  BookmarkReturns(r) =>
    /\ reply'[r].status # 500
    /\ reply'[r].isBookmarked
         <=> Present(bookmark', reply'[r].caller, reply'[r].questionId)
    /\ AtMostOneBookmark(bookmark')

\* C29: whichever way two bookmark requests of one user for one question
\* interleave, neither is answered with an internal error, each returns
\* the isBookmarked of the state right after its own write, and there is at
\* most one Bookmark row for the pair
C29_ConcurrentBookmarks ==
  [][\A r \in Requests : RaceStep(r)]_vars

\* the unique index holds under every interleaving
C29_OneRowPerPair == AtMostOneBookmark(bookmark)

\* the requests that are not overtaken between their read and their write
\* return as claimed
C29_UndisturbedRequests ==
  [][\A r \in Requests :
       (BookmarkReturns(r) /\ reply'[r].status = 200) =>
         (reply'[r].isBookmarked
            <=> Present(bookmark', reply'[r].caller, reply'[r].questionId))]_vars

\* ---- admin questions ----

\* the tags that the slugs of a request name
TagsOfSlugs(slugs) ==
  {t.id : t \in {x \in TagRows :
                   \E i \in 1..Len(slugs) :
                     toLowerCase(trim(slugs[i])) = x.slug}}

\* the options of a request that have a label and a text
WellFormedOptions(options) ==
  {[label |-> trim(o.label), text |-> trim(o.text),
    isCorrect |-> o.isCorrect] :
     o \in {x \in Range(options) : ~Falsy(trim(x.label))
                                   /\ ~Falsy(trim(x.text))}}

\* the stored question holds what the request provides
Replaced(q, body) ==
  /\ Range(q.topics) = Range(body.topicIds)
  /\ Range(q.tags) = Range(body.tagIds) \cup TagsOfSlugs(body.tagSlugs)
  /\ IF q.type = "NAT" THEN q.options = <<>>
     ELSE Range(q.options) = WellFormedOptions(body.options)
  /\ q.solution.present = (body.solution.given
                           /\ body.solution.answerText # <<>>)
  /\ q.solution.present => q.solution.answerText = body.solution.answerText

UpdateDone(r, userId, body) ==
  /\ body.id # 0
  /\ AdminSaveQuestion(r, userId, body)
  /\ reply'[r].status = 200

\* C25: an admin update of an existing question replaces its options,
\* topics, tags and solution with the provided ones: afterwards the stored
\* topics are the provided topicIds and the stored tags the provided tagIds
\* plus the tags of the provided slugs, for every provided list, empty or
\* not; a non-NAT question ends with the provided options and a NAT
\* question with none.
C25_UpdateReplaces ==
  [][\A r \in Requests, userId \in AdminUsers, body \in AdminBodies :
       \/ /\ body.id \in 1..Len(catalog')
          /\ Replaced(catalog'[body.id], body)
       \/ ~UpdateDone(r, userId, body)]_vars

\* the same for the updates that name at least one topic and at least one
\* tag
C25_NamedListsReplaced ==
  [][\A r \in Requests :
       LET a == reply'[r]
       IN  \/ a.op # "adminQuestion"
           \/ a.status # 200
           \/ a.body.id = 0
           \/ Len(a.body.topicIds) = 0
           \/ Len(resolvedTagIds(a.body)) = 0
           \/ Replaced(catalog'[a.body.id], a.body)
           \/ ~AdminSaveQuestion(r, a.userId, a.body)]_vars

\* an update with named lists has been stored over a question that had
\* other topics
C25_UpdateStored ==
  \E r \in Requests :
    /\ reply[r].op = "adminQuestion"
    /\ reply[r].status = 200
    /\ reply[r].body.id # 0
    /\ reply[r].body.topicIds = <<"t2">>
    /\ reply[r].id \in 1..Len(catalog)
    /\ catalog[reply[r].id].topics = <<"t2">>

\* C30: after any sequence of admin creates and updates every stored
\* question has hasSolution true exactly when it has a Solution row, a NAT
\* question has a Solution and no Option, and a non-NAT question has at
\* least one Option flagged isCorrect.
C30_StoredQuestionsConsistent ==
  \A i \in 1..Len(catalog) :
    LET q == catalog[i]
    IN  /\ q.hasSolution = q.solution.present
        /\ q.type = "NAT" => q.solution.present /\ q.options = <<>>
        /\ q.type # "NAT" =>
             \E k \in 1..Len(q.options) : q.options[k].isCorrect

\* the parts of it about options and the Solution of a NAT question
C30_OptionsAndNatSolution ==
  \A i \in 1..Len(catalog) :
    LET q == catalog[i]
    IN  /\ q.type = "NAT" => q.solution.present /\ q.options = <<>>
        /\ q.type # "NAT" =>
             \E k \in 1..Len(q.options) : q.options[k].isCorrect
        /\ q.solution.present => q.hasSolution

\* a question has changed its type from MCQ to NAT and back
C30_TypeChanged ==
  /\ Len(catalog) >= 1
  /\ catalog[1].type = "NAT"
  /\ \E r \in Requests :
       /\ reply[r].op = "adminQuestion"
       /\ reply[r].status = 200
       /\ reply[r].body.id = 1

\* ---- submissions and their responses ----

\* C28: every MockSubmission that Score Submission persists owns at least
\* one MockQuestionResponse; a submit whose non-empty list of responses is
\* skipped entirely creates no submission with zero responses and score 0.
C28_SubmissionOwnsResponse ==
  \A i \in 1..Len(mockSubmission) : Len(mockSubmission[i].responses) >= 1

\* a submission with responses owes each of them to an entry of the
\* request that was not skipped
C28_StoredOrSkipped ==
  \A r \in Requests :
    (reply[r].op = "submit" /\ reply[r].status = 200) =>
      /\ Len(reply[r].request) >= 1
      /\ Len(reply[r].responses) <= Len(reply[r].request)

\* ---- score and analysis ----

\* the questions of mock m that the analysis of submission sub counts as
\* correct: those whose response, as the analysis looks it up, is correct
CountedCorrect(m, sub) ==
  LET byId == ResponseByQuestionId(sub.responses)
  IN  {q \in MockQuestionIds(m) : q \in DOMAIN byId /\ byId[q].isCorrect}

CorrectRows(sub) ==
  {k \in 1..Len(sub.responses) : sub.responses[k].isCorrect}

\* C26: for every submission the analysis is consistent with the stored
\* score: overall.correct is the number of the submission's response rows
\* with isCorrect = true, and overall.totalScore, the stored totalScore, is
\* the sum of the marks of the questions of the Mock that the analysis
\* counts as correct.
C26_AnalysisMatchesScore ==
  \A r \in AnalysisReports(reply) :
    LET m == mock[reply[r].mockId]
        sub == mockSubmission[reply[r].sid]
        overall == reply[r].data.overall
    IN  /\ overall.correct = Cardinality(CorrectRows(sub))
        /\ overall.totalScore = sub.totalScore
        /\ overall.totalScore = MarksOf(CountedCorrect(m, sub))

\* the same for the submissions that answer no question twice
C26_SingleAnswersMatch ==
  \A r \in AnalysisReports(reply) :
    LET m == mock[reply[r].mockId]
        sub == mockSubmission[reply[r].sid]
        overall == reply[r].data.overall
        once == \A j, k \in 1..Len(sub.responses) :
                  sub.responses[j].questionId = sub.responses[k].questionId
                    => j = k
    IN  once =>
          /\ overall.correct = Cardinality(CorrectRows(sub))
          /\ overall.totalScore = sub.totalScore
          /\ overall.totalScore = MarksOf(CountedCorrect(m, sub))

\* a report on a submission with a correct response
C26_ScoredReport ==
  \E r \in AnalysisReports(reply) :
    /\ reply[r].data.overall.correct >= 1
    /\ reply[r].data.overall.totalScore >= 1

\* C27: for every submission of a Mock, after any sequence of submits,
\* 0 <= totalScore <= maxScore, the sum of the marks of all questions of
\* the Mock as the analysis reports it.
C27_ScoreWithinMax ==
  /\ \A i \in 1..Len(mockSubmission) :
       /\ 0 <= mockSubmission[i].totalScore
       /\ mockSubmission[i].totalScore
            <= MarksOf(MockQuestionIds(mock[mockSubmission[i].mockId]))
  /\ \A r \in AnalysisReports(reply) :
       /\ reply[r].data.overall.maxScore
            = MarksOf(MockQuestionIds(mock[reply[r].mockId]))
       /\ 0 <= reply[r].data.overall.totalScore
       /\ reply[r].data.overall.totalScore <= reply[r].data.overall.maxScore

\* the same for the submissions that answer no question twice
C27_SingleAnswersWithinMax ==
  \A i \in 1..Len(mockSubmission) :
    LET sub == mockSubmission[i]
        once == \A j, k \in 1..Len(sub.responses) :
                  sub.responses[j].questionId = sub.responses[k].questionId
                    => j = k
    IN  once =>
          /\ 0 <= sub.totalScore
          /\ sub.totalScore <= MarksOf(MockQuestionIds(mock[sub.mockId]))

====
